---- MODULE Spec2Model ----
(***************************************************************************)
(* State-machine model of the osprey-atproto streaming processors.         *)
(*                                                                         *)
(*   Effector  (src/effector/receiver.go)   : SpecEffector,                *)
(*             its shutdown                 : SpecEffectorShutdown         *)
(*   Converter (src/converter/converter.go) : SpecConverter                *)
(*   Enricher  (src/unnamed/part_007)       : SpecEnricher                 *)
(*   Moderation client (src/effector/ozone.go) : SpecOzoneClient           *)
(*   Batched inserter (src/pkg/bigquery_inserter) : SpecInserter           *)
(*   Retina, the hashing and OCR service (src/retina) : SpecPdq, SpecOcr   *)
(*   Label and report vocabularies (src/effector/ozone.go) : SpecVocabulary*)
(*   Log manager (src/retina/retina.go) : SpecLogManager                   *)
(*   Retina's Run and shutdown (src/retina/retina.go) : SpecRetinaRun      *)
(*   Image CDN client (src/unnamed/part_005) : SpecCdn                     *)
(*                                                                         *)
(* Every component has its own variables, initial predicate and actions;   *)
(* a component's specification keeps the other components' variables at   *)
(* their initial values.                                                   *)
(***************************************************************************)
EXTENDS Integers, Sequences, FiniteSets, TLC

VARIABLES
    \* ---- effector ----
    memo,           \* keys held by the shared memcache (action memo)
    replicaKeys,    \* keys another effector replica has inserted into it
    evtOf,          \* verdict (index into Verdicts) handled by each handler goroutine, 0 = none yet
    hpc,            \* position of each handleEvent goroutine
    hidx,           \* index of the effect the goroutine is at (over the nine loops)
    ozoneStatus,    \* per goroutine: the ozoneStatus of each effect reached so far
    ozoneCalls,     \* per goroutine: the moderation-client operations it invoked, in order
    effectLog,      \* per goroutine: its LogEffect rows, in order
    eventLog,       \* number of LogEvent calls per goroutine
    ozoneRequests,  \* the ozone_requests counter vector (a bag of <<type, kind, status>>)
    isProduction,   \* Args.IsProduction
    lookup,         \* per goroutine: result of the memClient.Get of the current effect,
                    \* and whether the memo held the key when the Get was made
    lookups,        \* per goroutine: the lookup of each effect reached so far
    faults,         \* number of disturbances so far (failed cache operations and
                    \* moderation calls, memo entries changed from outside)
    topic,          \* the verdicts on the input topic (indices into Verdicts)
    \* ---- converter ----
    cvPc,           \* position of Run / its signal-handler goroutine ("down": no process)
    cursorOverride, \* c.cursorOverride of the current run
    lastCursor,     \* c.lastCursor (nil or the high-water mark)
    urlCursor,      \* the cursor query parameter of the subscription URL (nil: none)
    nextRead,       \* sequence of the next frame HandleRepoStream reads
    relayHead,      \* last frame the relay had sent before this run connects
    streamPc,       \* position of the HandleRepoStream goroutine
    active,         \* scheduler: per repo, whether a task runs and the frames queued behind it
    worker,         \* scheduler: frame each worker is handling (0: idle)
    bus,            \* messages enqueued on the output topic, in order
    producerClosed, \* busProducer.Close() has been called
    cursorLog,      \* records on the cursor topic, in order
    savePc,         \* position of periodicallySaveCursor
    finalSave,      \* outcome of the save on exit of the current run
    graceExpired,   \* which of the two 5 s shutdown timers fired in the current run
    eventsReceived, \* events_received counter vector of the current run
    eventsProduced, \* events_produced counter vector of the current run
    produceErrs,    \* number of ProduceAsync calls that failed on an open producer
    handled,        \* frames handled by handleStreamEvent in the current run
    streamErr,      \* the error HandleRepoStream returned (nil: still running)
    runErr,         \* what Run returned
    flushCursor,    \* c.lastCursor at the time busProducer.Close() was called (nil: not yet)
    \* ---- enricher ----
    enPc,           \* position of handleEvent
    enConfig,       \* which optional clients are configured
    enEvent,        \* the FirehoseEvent being handled
    enTask,         \* state of each goroutine of the handler: none, running, done
    wg,             \* the wait group's counter
    dispatchExpired,\* the 30 s of dispatchCtx have elapsed
    blobs,          \* ozoneRepoViewDetail, profileView, didDoc, didAuditLog (nil or set)
    images,         \* content-addresses of the images downloaded
    prescreenResults, hiveResults, abyssResults, retinaResults,  \* per-image result maps
    imageResults,   \* the imageResults map handleEvent assembles
    produced,       \* OspreyInputEvents enqueued on the output topic
    enReturn,       \* what handleEvent returned: none (yet), nil, error
    \* ---- moderation client ----
    ocProduction,   \* oc.isProduction
    ocSlot,         \* oc.client: the access/refresh pair held by the atomic slot
    ocSessions,     \* session responses the server has issued after the first one
    ocExpiring,     \* sessions whose access credential expires within 5 minutes
    ocMu,           \* oc.refreshMu: the caller holding it (0: unlocked)
    ocPc,           \* position of each goroutine calling a client operation
    ocReq,          \* the operation each caller invoked (index into OzoneRequests, 0: none)
    ocLocal,        \* the client (credential pair) the caller holds, nil before GetClient
    ocRefreshes,    \* the refresh exchanges made, in order: refresh credential, outcome,
                    \* callers waiting for refreshMu when it returned
    ocApi,          \* per caller: the emitEvent requests sent to the moderation API
    ocRet,          \* per caller: what the operation returned: none (yet), nil, error
    ocFaults,       \* failed refresh exchanges and emitEvent requests so far
    effectsProcessed, \* the effects_processed counter vector
    \* ---- batched inserter ----
    batchSize,      \* i.batchSize
    maxPendingSends,\* i.maxPendingSends
    queuedEvents,   \* i.queuedEvents: the rows queued, in order
    pendingSends,   \* i.pendingSends
    biPc,           \* position of each goroutine calling Insert or Close
    biCall,         \* the call the goroutine is in: Insert, Close or none
    toInsert,       \* per goroutine: the batch it drained (toInsert)
    biSeen,         \* per goroutine: pendingSends as of its last lock acquisition
    inserted,       \* number of rows handed to Insert so far (rows are 1, 2, ...)
    drained,        \* the batches drained from the queue, with the call that drained them
    submitted,      \* the batches handed to inserter.Put, with the outcome
    dropped,        \* the batches sendStream dropped
    closes,         \* the Close calls so far: rows inserted before, batch drained, returned
    biFaults,       \* failed Put calls so far
    \* ---- retina ----
    hashRes,        \* handlePdq: the hash GetImageHash returned
    binary,         \* handlePdq: what strToBinary returned for it (nil: not yet called)
    ocrSize,        \* ocrSemaphore: its size (MaxConcurrentOCRExecs)
    ocrCur,         \* ocrSemaphore: the weight acquired
    ocrWaiters,     \* ocrSemaphore: the requests waiting, in order of arrival
    ocrPc,          \* position of each request in getImageTextStream
    ocrRet,         \* what getImageTextStream returned to each request last
    \* ---- vocabularies ----
    effLabel,       \* e.Label of a label effect (enum member)
    effReportKind,  \* e.ReportKind of a report effect (enum member)
    labelStr,       \* what AtprotoLabelToString gave for it (nil: not yet called)
    reportTypeStr,  \* what AtprotoReportKindToString gave for the kind
    \* ---- log manager ----
    loggers,        \* lm.loggers: the registered sinks, in registration order
    addErr,         \* what the last AddLogger returned
    lmPc,           \* position of the LogEvent / LogEffect call in progress
    lmKind,         \* which of the two it is
    lmIdx,          \* index of the sink the loop is at
    lmErr,          \* err of the call: the sink errors joined so far (nil: none)
    sinkCalls,      \* the sink invocations of the call, in order
    lmRet,          \* what the call returned
    \* ---- effector shutdown ----
    runPc,          \* position of OspreyEffector.Run
    consumerOpen,   \* FALSE once the consumer goroutine has run or.consumer.Close()
    eventFlush,     \* event rows in the queue at the eventInserter's final flush (nil: not closed)
    effectFlush,    \* effect rows in the queue at the effectInserter's final flush
    \* ---- retina shutdown ----
    rrPc,           \* position of Retina.Run (and of the process: "exited" after main returns)
    echoPc,         \* position of the API server's shutdown goroutine
    httpdPc,        \* position of the goroutine in r.httpd.ListenAndServe()
    metricsPc,      \* position of the goroutine in r.metricsHttpd.ListenAndServe()
    shutdownEcho,   \* the shutdownEcho channel has been closed
    rrWg,           \* the counter of Run's sync.WaitGroup
    rrConns,        \* API requests being served
    \* ---- image CDN client ----
    cdCacheSize,    \* ClientArgs.CacheSize
    cdCache,        \* c.cache: nil, or the set of keys the LRU holds
    cdPc,           \* position of each goroutine in GetImageBytes
    cdCid,          \* the image each goroutine asked for
    cdRet,          \* what GetImageBytes returned to it: none (yet), bytes, error
    cdFetches,      \* the requests sent to the CDN, in order
    cdCalls         \* GetImageBytes calls so far

effVars == <<memo, replicaKeys, evtOf, hpc, hidx, ozoneStatus, ozoneCalls, effectLog, eventLog,
             ozoneRequests, isProduction, lookup, lookups, faults, topic>>

cvVars == <<cvPc, cursorOverride, lastCursor, urlCursor, nextRead, relayHead,
            streamPc, active, worker, bus, producerClosed, cursorLog, savePc, finalSave,
            graceExpired, eventsReceived, eventsProduced, produceErrs, handled, streamErr, runErr,
            flushCursor>>

enVars == <<enPc, enConfig, enEvent, enTask, wg, dispatchExpired, blobs, images,
            prescreenResults, hiveResults, abyssResults, retinaResults, imageResults,
            produced, enReturn>>

ocVars == <<ocProduction, ocSlot, ocSessions, ocExpiring, ocMu, ocPc, ocReq, ocLocal,
            ocRefreshes, ocApi, ocRet, ocFaults, effectsProcessed>>

biVars == <<batchSize, maxPendingSends, queuedEvents, pendingSends, biPc, biCall, toInsert,
            biSeen, inserted, drained, submitted, dropped, closes, biFaults>>

rtVars == <<hashRes, binary, ocrSize, ocrCur, ocrWaiters, ocrPc, ocrRet>>

voVars == <<effLabel, effReportKind, labelStr, reportTypeStr>>

lmVars == <<loggers, addErr, lmPc, lmKind, lmIdx, lmErr, sinkCalls, lmRet>>

sdVars == <<runPc, consumerOpen, eventFlush, effectFlush>>

rrVars == <<rrPc, echoPc, httpdPc, metricsPc, shutdownEcho, rrWg, rrConns>>

cdVars == <<cdCacheSize, cdCache, cdPc, cdCid, cdRet, cdFetches, cdCalls>>

vars == <<effVars, cvVars, enVars, ocVars, biVars, rtVars, voVars, lmVars, sdVars, rrVars, cdVars>>

\* Variables of the other components, unchanged by a component's actions.
notEffVars == <<cvVars, enVars, ocVars, biVars, rtVars, voVars, lmVars, sdVars, rrVars, cdVars>>
notCvVars == <<effVars, enVars, ocVars, biVars, rtVars, voVars, lmVars, sdVars, rrVars, cdVars>>
notEnVars == <<effVars, cvVars, ocVars, biVars, rtVars, voVars, lmVars, sdVars, rrVars, cdVars>>
notOcVars == <<effVars, cvVars, enVars, biVars, rtVars, voVars, lmVars, sdVars, rrVars, cdVars>>
notBiVars == <<effVars, cvVars, enVars, ocVars, rtVars, voVars, lmVars, sdVars, rrVars, cdVars>>
notLmVars == <<effVars, cvVars, enVars, ocVars, biVars, rtVars, voVars, sdVars, rrVars, cdVars>>
notVoVars == <<effVars, cvVars, enVars, ocVars, biVars, rtVars, lmVars, sdVars, rrVars, cdVars>>
notSdVars == <<cvVars, enVars, ocVars, biVars, rtVars, voVars, lmVars, rrVars, cdVars>>
notRtVars == <<effVars, cvVars, enVars, ocVars, biVars, voVars, lmVars, sdVars, rrVars, cdVars>>
notRrVars == <<effVars, cvVars, enVars, ocVars, biVars, rtVars, voVars, lmVars, sdVars, cdVars>>
notCdVars == <<effVars, cvVars, enVars, ocVars, biVars, rtVars, voVars, lmVars, sdVars, rrVars>>

(***************************************************************************)
(* Helpers                                                                 *)
(***************************************************************************)
\* A nil pointer is the empty sequence, a set pointer a sequence of length 1.
Nil == <<>>

RECURSIVE Join(_, _)
\* strings.Join(elems, sep)
Join(elems, sep) ==
    IF Len(elems) = 0 THEN ""
    ELSE IF Len(elems) = 1 THEN elems[1]
    ELSE elems[1] \o sep \o Join(Tail(elems), sep)

\* bag increment of a counter vector
Inc(counter, labels) ==
    IF labels \in DOMAIN counter
    THEN [counter EXCEPT ![labels] = @ + 1]
    ELSE counter @@ (labels :> 1)

RECURSIVE IncAll(_, _)
IncAll(counter, labelSeq) ==
    IF Len(labelSeq) = 0 THEN counter
    ELSE IncAll(Inc(counter, Head(labelSeq)), Tail(labelSeq))

Count(counter, labels) == IF labels \in DOMAIN counter THEN counter[labels] ELSE 0

\* strings.HasPrefix(s, prefix)
HasPrefix(s, prefix) ==
    Len(s) >= Len(prefix) /\ SubSeq(s, 1, Len(prefix)) = prefix

\* index of the first "/" of path at or after position i, 0 when none
RECURSIVE SlashAt(_, _)
SlashAt(path, i) ==
    IF i > Len(path) THEN 0
    ELSE IF SubSeq(path, i, i) = "/" THEN i ELSE SlashAt(path, i + 1)

\* syntax.ParseATURI(uri): the authority of an at:// URI (up to the next
\* "/"), or nil when the string is not an at:// URI with an authority.
ParseATURI(uri) ==
    IF ~HasPrefix(uri, "at://") THEN Nil
    ELSE LET rest == SubSeq(uri, 6, Len(uri))
             slash == SlashAt(rest, 1)
             authority == IF slash = 0 THEN rest ELSE SubSeq(rest, 1, slash - 1)
         IN  IF authority = "" THEN Nil ELSE <<authority>>

(***************************************************************************)
(* EFFECTOR  (src/effector/receiver.go)                                    *)
(***************************************************************************)
\* Bounds: verdicts consumed (one handleEvent goroutine each); disturbances
\* from outside (failed cache operations, failed moderation calls, entries
\* leaving the memo or written to it by another replica).
MaxVerdicts == 2
MaxFaults == 1

Handlers == 1..MaxVerdicts

\* An optional int64 (*int64) is a sequence of length 0 (nil) or 1.
NoDuration == <<>>

LabelEff(kind, rules, dur, label, remove) ==
    [list |-> "label", kind |-> kind, rules |-> rules, dur |-> dur,
     payload |-> label, remove |-> remove]
Eff(list, kind, rules, payload, remove) ==
    [list |-> list, kind |-> kind, rules |-> rules, dur |-> NoDuration,
     payload |-> payload, remove |-> remove]

ActorDid == "did:plc:abc"
RecordUri == "at://did:plc:abc/app.bsky.feed.post/1"

\* The verdicts (osprey.ResultEvent) the rules engine may emit.  Subject kinds
\* are ACTOR and RECORD (the two cases of every switch in handleEvent).
Verdicts == <<
    \* V1: add label spam on the actor by R1, a report and an email
    [did |-> ActorDid, uri |-> "", cid |-> "",
     Labels |-> << LabelEff("ACTOR", <<"R1">>, NoDuration, "spam", FALSE) >>,
     Tags |-> <<>>, Takedowns |-> <<>>,
     Reports |-> << Eff("report", "ACTOR", <<"R1">>, "spam", FALSE) >>,
     Comments |-> <<>>, Escalations |-> <<>>, Acknowledgements |-> <<>>,
     Emails |-> << Eff("email", "ACTOR", <<"R1">>, "warn", FALSE) >>,
     BigqueryFlags |-> <<>>],
    \* V2: a tag on the same actor by the same rule, a comment on the record
    \*     and an acknowledgement of the record
    [did |-> ActorDid, uri |-> RecordUri, cid |-> "bafy1",
     Labels |-> <<>>,
     Tags |-> << Eff("tag", "ACTOR", <<"R1">>, "t1", FALSE) >>,
     Takedowns |-> <<>>, Reports |-> <<>>,
     Comments |-> << Eff("comment", "RECORD", <<"R1">>, "c", FALSE) >>,
     Escalations |-> <<>>,
     Acknowledgements |-> << Eff("acknowledgement", "RECORD", <<"R1">>, "", FALSE) >>,
     Emails |-> <<>>, BigqueryFlags |-> <<>>],
    \* V3: record subject: a timed label by two rules, a takedown, an
    \*     escalation of the actor and a warehouse flag
    [did |-> ActorDid, uri |-> RecordUri, cid |-> "bafy1",
     Labels |-> << LabelEff("RECORD", <<"R1", "R2">>, <<24>>, "needs-review", FALSE) >>,
     Tags |-> <<>>,
     Takedowns |-> << Eff("takedown", "RECORD", <<"R1", "R2">>, "", FALSE) >>,
     Reports |-> <<>>, Comments |-> <<>>,
     Escalations |-> << Eff("escalation", "ACTOR", <<"R2">>, "", FALSE) >>,
     Acknowledgements |-> <<>>, Emails |-> <<>>,
     BigqueryFlags |-> << Eff("bigquery-flag", "RECORD", <<"R2">>, "f", FALSE) >>],
    \* V4: a verdict on an actor (no record uri): two reports in one list and
    \*     a warehouse flag that names a record subject
    [did |-> ActorDid, uri |-> "", cid |-> "",
     Labels |-> <<>>, Tags |-> <<>>, Takedowns |-> <<>>,
     Reports |-> << Eff("report", "ACTOR", <<"R1">>, "spam", FALSE),
                    Eff("report", "ACTOR", <<"R1">>, "violation", FALSE) >>,
     Comments |-> <<>>, Escalations |-> <<>>, Acknowledgements |-> <<>>,
     Emails |-> <<>>,
     BigqueryFlags |-> << Eff("bigquery-flag", "RECORD", <<"R2">>, "f", FALSE) >>]
>>

\* The deployments explored: what the input topic holds (indices into
\* Verdicts, read round-robin when more verdicts are consumed than listed)
\* and whether the effector runs in production.
Deployments == {
    [topic |-> <<1, 1>>, production |-> FALSE],
    [topic |-> <<1, 2>>, production |-> TRUE],
    [topic |-> <<3, 4>>, production |-> TRUE],
    [topic |-> <<2, 3>>, production |-> FALSE] }

TopicAt(t, n) == t[((n - 1) % Len(t)) + 1]

RECURSIVE Reverse(_)
Reverse(list) == IF list = <<>> THEN <<>> ELSE Append(Reverse(Tail(list)), Head(list))

\* What a handleEvent that walks each effect list from its end would do.
EffectsInOrderBackwards(v) ==
    Reverse(v.Labels) \o Reverse(v.Tags) \o Reverse(v.Takedowns) \o Reverse(v.Reports) \o
    Reverse(v.Comments) \o Reverse(v.Escalations) \o Reverse(v.Acknowledgements) \o
    Reverse(v.Emails) \o Reverse(v.BigqueryFlags)

\* handleEvent runs its nine loops one after the other, each in list order.
EffectsInOrder(v) ==
    v.Labels \o v.Tags \o v.Takedowns \o v.Reports \o v.Comments \o
    v.Escalations \o v.Acknowledgements \o v.Emails \o v.BigqueryFlags

\* What a bug that memoizes every moderation effect would do.
MemoizedEveryLoop(e) == e.list # "bigquery-flag"

\* The loops that call checkHasActioned before the moderation call.
Memoized(e) == e.list \in {"label", "tag", "takedown", "comment"}

\* The subject a loop passes on: evt.Did for ACTOR, evt.Uri for RECORD.
Subject(v, e) == IF e.kind = "ACTOR" THEN v.did ELSE v.uri

\* createActionKey: fmt.Sprintf("%s-%s", subject, ruleName), then "-dur-%d".
createActionKey(subject, ruleName, expirationInHours) ==
    LET key == subject \o "-" \o ruleName
    IN  IF expirationInHours # NoDuration
        THEN key \o "-dur-" \o ToString(expirationInHours[1])
        ELSE key

\* The key a loop hands to checkHasActioned: only the labels loop passes the
\* effect's ExpirationInHours, the other memoized loops pass nil.
ActionKey(v, e) ==
    createActionKey(Subject(v, e), Join(e.rules, ","),
                    IF e.list = "label" THEN e.dur ELSE NoDuration)

\* The OzoneClient method each loop invokes.
OzoneOp(e) ==
    CASE e.list = "label"      -> IF e.kind = "ACTOR" THEN "LabelActor" ELSE "LabelRecord"
      [] e.list = "tag"        -> IF e.kind = "ACTOR" THEN "TagActor" ELSE "TagRecord"
      [] e.list = "takedown"   -> IF e.kind = "ACTOR" THEN "TakedownActor" ELSE "TakedownRecord"
      [] e.list = "report"     -> IF e.kind = "ACTOR" THEN "ReportActor" ELSE "ReportRecord"
      [] e.list = "comment"    -> IF e.kind = "ACTOR" THEN "CommentActor" ELSE "CommentRecord"
      [] e.list = "escalation" -> IF e.kind = "ACTOR" THEN "EscalateActor" ELSE "EscalateRecord"
      [] e.list = "acknowledgement" ->
                                  IF e.kind = "ACTOR" THEN "AcknowledgeActor" ELSE "EscalateRecord"
      [] e.list = "email"      -> "SendEmail"
      [] OTHER                 -> "addFlag"

\* The labels of the deferred ozoneRequests increment of each loop.
RequestLabels(e, status) ==
    CASE e.list \in {"label", "tag", "takedown", "report"} -> <<e.list, e.kind, status>>
      [] e.list = "email" -> <<"comment", "actor", status>>
      [] OTHER -> <<"comment", e.kind, status>>

CurVerdict(h) == Verdicts[evtOf[h]]
CurEffects(h) == EffectsInOrder(CurVerdict(h))
CurEffect(h) == CurEffects(h)[hidx[h]]
CurKey(h) == ActionKey(CurVerdict(h), CurEffect(h))

\* Where the goroutine goes when it reaches effect number i of verdict v.
PcAt(v, i) ==
    LET es == EffectsInOrder(v)
    IN  IF i > Len(es) THEN "return"
        ELSE IF es[i].list = "bigquery-flag" THEN "flag"
        ELSE IF Memoized(es[i]) THEN "get"
        ELSE "call"

AllKeys ==
    UNION { { ActionKey(Verdicts[n], EffectsInOrder(Verdicts[n])[i]) :
                i \in { j \in 1..Len(EffectsInOrder(Verdicts[n])) :
                          Memoized(EffectsInOrder(Verdicts[n])[j]) } } :
            n \in 1..Len(Verdicts) }

NoLookup == [outcome |-> "none", present |-> FALSE]

EffInit ==
    /\ memo = {}
    /\ replicaKeys = {}
    /\ evtOf = [h \in Handlers |-> 0]
    /\ hpc = [h \in Handlers |-> "idle"]
    /\ hidx = [h \in Handlers |-> 0]
    /\ ozoneStatus = [h \in Handlers |-> <<>>]
    /\ ozoneCalls = [h \in Handlers |-> <<>>]
    /\ effectLog = [h \in Handlers |-> <<>>]
    /\ eventLog = [h \in Handlers |-> 0]
    /\ ozoneRequests = <<>>
    /\ \E d \in Deployments : /\ topic = d.topic
                             /\ isProduction = d.production
    /\ lookup = [h \in Handlers |-> NoLookup]
    /\ lookups = [h \in Handlers |-> <<>>]
    /\ faults = 0

\* What a handleEvent that logs every effect it gets through would do.
LogsEffectAlways(status) == TRUE

\* Whether a loop calls logEffect for the effect it is through with: in the
\* branch where the client call returned no error (a skipped effect leaves
\* the iteration with continue before that).
LogsEffect(status) == status = "ok"

\* The effect log after goroutine h is through with its current effect.
Logged(h, status) ==
    IF LogsEffect(status)
    THEN [effectLog EXCEPT ![h] =
            Append(@, [idx |-> hidx[h], kind |-> CurEffect(h).list])]
    ELSE effectLog

\* Moves goroutine h on to its next effect, recording the ozoneStatus (and
\* the lookup) of the effect it leaves.
Advance(h, status, lk) ==
    /\ ozoneStatus' = [ozoneStatus EXCEPT ![h] = Append(@, status)]
    /\ lookups' = [lookups EXCEPT ![h] = Append(@, lk)]
    /\ lookup' = [lookup EXCEPT ![h] = NoLookup]
    /\ hidx' = [hidx EXCEPT ![h] = @ + 1]
    /\ hpc' = [hpc EXCEPT ![h] = PcAt(CurVerdict(h), hidx[h] + 1)]

\* A failing cache operation or moderation call uses up the fault budget.
Fault(failed) ==
    /\ failed => faults < MaxFaults
    /\ faults' = IF failed THEN faults + 1 ELSE faults

\* Whether the handler goroutines still run: until Run has returned (what the
\* caller of Run does then is outside src/effector; the model stops them).
Alive == runPc # "returned"

\* handleEventAsync: the consumer hands the next verdict to a new goroutine.
\* handleEvent first logs the event (LogEvent) and enters the labels loop.
HandleEventAsync(h) ==
    /\ Alive /\ consumerOpen
    /\ hpc[h] = "idle"
    /\ \A g \in Handlers : g < h => hpc[g] # "idle"
    /\ evtOf' = [evtOf EXCEPT ![h] = TopicAt(topic, h)]
    /\ eventLog' = [eventLog EXCEPT ![h] = @ + 1]
    /\ hidx' = [hidx EXCEPT ![h] = 1]
    /\ hpc' = [hpc EXCEPT ![h] = PcAt(Verdicts[TopicAt(topic, h)], 1)]
    /\ UNCHANGED <<memo, ozoneStatus, ozoneCalls, effectLog, ozoneRequests,
                   isProduction, lookup, lookups, faults, topic>>
    /\ UNCHANGED <<replicaKeys, notEffVars>>

\* What a Get that answers every lookup with an item would do.
GetOutcomeAlwaysHit(key, reachable) == "hit"

\* The result of memClient.Get(key): the cache answers (hit or miss) or the
\* lookup fails (cache unreachable, malformed key).
GetOutcome(key, reachable) ==
    IF ~reachable THEN "error" ELSE IF key \in memo THEN "hit" ELSE "miss"

\* What a checkHasActioned that never reports "already actioned" would do.
HasActionedNever(outcome) == FALSE

\* What a checkHasActioned that takes every answer but a miss for "already
\* actioned" would do.
HasActionedUnlessMiss(outcome) == outcome # "miss"

\* checkHasActioned, first half: what it does with the result of Get.
\* TRUE: return true (already actioned); FALSE: go on to Add and return false.
HasActioned(outcome) == outcome = "hit"

\* checkHasActioned up to the Get.  A hit skips the effect (ozoneStatus
\* "skipped", continue); otherwise the goroutine goes on to the Add.
CheckHasActionedGet(h, reachable) ==
    LET lk == [outcome |-> GetOutcome(CurKey(h), reachable),
               present |-> CurKey(h) \in memo]
    IN  /\ Alive
        /\ hpc[h] = "get"
        /\ Fault(~reachable)
        /\ IF HasActioned(lk.outcome)
           THEN /\ Advance(h, "skipped", lk)
                /\ effectLog' = Logged(h, "skipped")
           ELSE /\ hpc' = [hpc EXCEPT ![h] = "add"]
                /\ lookup' = [lookup EXCEPT ![h] = lk]
                /\ UNCHANGED <<hidx, ozoneStatus, lookups, effectLog>>
        /\ UNCHANGED <<memo, evtOf, ozoneCalls, eventLog, ozoneRequests,
                       isProduction, topic>>
        /\ UNCHANGED <<replicaKeys, notEffVars>>

\* checkHasActioned, second half: memClient.Add(key); errors (ErrNotStored
\* included) are only logged, and false is returned.
CheckHasActionedAdd(h, reachable) ==
    /\ Alive
    /\ hpc[h] = "add"
    /\ Fault(~reachable)
    /\ memo' = IF reachable THEN memo \cup {CurKey(h)} ELSE memo
    /\ hpc' = [hpc EXCEPT ![h] = "call"]
    /\ UNCHANGED <<evtOf, hidx, ozoneStatus, ozoneCalls, effectLog, eventLog,
                   ozoneRequests, isProduction, lookup, lookups, topic>>
    /\ UNCHANGED <<replicaKeys, notEffVars>>

\* What a loop that sets ozoneStatus before looking at the error would do.
CallStatusOkAlways(ok) == "ok"

\* ozoneStatus after the client call: it starts as "error" and is set to
\* "ok" only in the else-branch of the error check.
CallStatus(ok) == IF ok THEN "ok" ELSE "error"

\* The moderation-client call of the current effect and, when it returns no
\* error, the LogEffect row.
OzoneCall(h, ok) ==
    /\ Alive
    /\ hpc[h] = "call"
    /\ Fault(~ok)
    /\ ozoneCalls' = [ozoneCalls EXCEPT ![h] =
                        Append(@, [idx |-> hidx[h], op |-> OzoneOp(CurEffect(h)),
                                   subject |-> IF CurEffect(h).list = "email"
                                               THEN CurVerdict(h).did
                                               ELSE Subject(CurVerdict(h), CurEffect(h)),
                                   list |-> CurEffect(h).list,
                                   payload |-> CurEffect(h).payload,
                                   ok |-> ok])]
    /\ effectLog' = Logged(h, CallStatus(ok))
    /\ Advance(h, CallStatus(ok), lookup[h])
    /\ UNCHANGED <<memo, evtOf, eventLog, ozoneRequests, isProduction, topic>>
    /\ UNCHANGED <<replicaKeys, notEffVars>>

\* addFlag: fails when the uri does not parse; Insert never returns an error.
addFlag(uri) == ParseATURI(uri) # Nil

\* The BigqueryFlags loop: skipped without a flag client (created only in
\* production) or for a non-record subject; otherwise addFlag, and the effect
\* is logged whether addFlag failed or not.  The loop has no ozoneStatus.
BigqueryFlag(h) ==
    /\ Alive
    /\ hpc[h] = "flag"
    /\ IF isProduction /\ CurEffect(h).kind = "RECORD"
       THEN /\ ozoneCalls' = [ozoneCalls EXCEPT ![h] =
                                Append(@, [idx |-> hidx[h], op |-> OzoneOp(CurEffect(h)),
                                           subject |-> CurVerdict(h).uri,
                                           list |-> CurEffect(h).list,
                                           payload |-> CurEffect(h).payload,
                                           ok |-> addFlag(CurVerdict(h).uri)])]
            /\ effectLog' = [effectLog EXCEPT ![h] =
                               Append(@, [idx |-> hidx[h], kind |-> "bigquery-flag"])]
       ELSE UNCHANGED <<ozoneCalls, effectLog>>
    /\ Advance(h, "none", NoLookup)
    /\ UNCHANGED <<memo, evtOf, eventLog, ozoneRequests, isProduction,
                   faults, topic>>
    /\ UNCHANGED <<replicaKeys, notEffVars>>

\* The labels of the deferred ozoneRequests increments of goroutine h.
RECURSIVE DeferredLabels(_, _)
DeferredLabels(h, i) ==
    IF i > Len(ozoneStatus[h]) THEN <<>>
    ELSE (IF ozoneStatus[h][i] = "none" THEN <<>>
          ELSE << RequestLabels(CurEffects(h)[i], ozoneStatus[h][i]) >>)
         \o DeferredLabels(h, i + 1)

\* handleEvent returns: the deferred increments run.
HandleEventReturn(h) ==
    /\ Alive
    /\ hpc[h] = "return"
    /\ ozoneRequests' = IncAll(ozoneRequests, DeferredLabels(h, 1))
    /\ hpc' = [hpc EXCEPT ![h] = "done"]
    /\ UNCHANGED <<memo, evtOf, hidx, ozoneStatus, ozoneCalls, effectLog, eventLog,
                   isProduction, lookup, lookups, faults, topic>>
    /\ UNCHANGED <<replicaKeys, notEffVars>>

\* The memcache is shared and outside the effector: an entry can leave it
\* (eviction, restart) ...
MemoExpire(k) ==
    /\ k \in memo
    /\ Fault(TRUE)
    /\ memo' = memo \ {k}
    /\ UNCHANGED <<evtOf, hpc, hidx, ozoneStatus, ozoneCalls, effectLog, eventLog,
                   ozoneRequests, isProduction, lookup, lookups, topic>>
    /\ UNCHANGED <<replicaKeys, notEffVars>>

\* ... and another effector replica can insert one.
MemoReplicaAdd(k) ==
    /\ k \notin memo
    /\ Fault(TRUE)
    /\ memo' = memo \cup {k}
    /\ replicaKeys' = replicaKeys \cup {k}
    /\ UNCHANGED <<evtOf, hpc, hidx, ozoneStatus, ozoneCalls, effectLog, eventLog,
                   ozoneRequests, isProduction, lookup, lookups, topic>>
    /\ UNCHANGED notEffVars

EffNext ==
    \/ \E h \in Handlers : HandleEventAsync(h)
    \/ \E h \in Handlers, reachable \in BOOLEAN : CheckHasActionedGet(h, reachable)
    \/ \E h \in Handlers, reachable \in BOOLEAN : CheckHasActionedAdd(h, reachable)
    \/ \E h \in Handlers, ok \in BOOLEAN : OzoneCall(h, ok)
    \/ \E h \in Handlers : BigqueryFlag(h)
    \/ \E h \in Handlers : HandleEventReturn(h)
    \/ \E k \in AllKeys : MemoExpire(k)
    \/ \E k \in AllKeys : MemoReplicaAdd(k)


\* The moderation-client calls goroutine h made for its effect number i.
CallsFor(h, i) == { c \in 1..Len(ozoneCalls[h]) : ozoneCalls[h][c].idx = i }

\* The effects goroutine h is through with.
Finished(h) == 1..Len(ozoneStatus[h])

NeverMemoized == {"report", "escalation", "acknowledgement", "email"}

\* C1 (as stated): a label, tag, takedown or comment effect whose memo key
\* was in the cache when the effect was processed (an identical earlier
\* effect wrote it and it has not expired) issues no moderation-API call and
\* has ozoneStatus "skipped".
C1_PresentEntrySkips ==
    \A h \in Handlers : \A i \in Finished(h) :
        (Memoized(CurEffects(h)[i]) /\ lookups[h][i].present)
            => (ozoneStatus[h][i] = "skipped" /\ CallsFor(h, i) = {})

\* C1 (amended): the same, provided the cache lookup itself did not fail;
\* the skipped effect is counted in ozone_requests with status "skipped"
\* when the handler returns.
C1_PresentEntrySkipsWhenLookupSucceeds ==
    \A h \in Handlers : \A i \in Finished(h) :
        (/\ Memoized(CurEffects(h)[i])
         /\ lookups[h][i].present
         /\ lookups[h][i].outcome # "error")
            => /\ ozoneStatus[h][i] = "skipped"
               /\ CallsFor(h, i) = {}
               /\ hpc[h] = "done" =>
                    Count(ozoneRequests,
                          RequestLabels(CurEffects(h)[i], "skipped")) >= 1

\* C1 witness: an effect was applied, and a later effect of another verdict
\* with the same key was skipped on a cache hit.
C1_Witness ==
    \E g \in Handlers, h \in Handlers :
        /\ g # h
        /\ hpc[h] = "done"
        /\ \E j \in Finished(g), i \in Finished(h) :
            /\ Memoized(CurEffects(g)[j]) /\ Memoized(CurEffects(h)[i])
            /\ ActionKey(CurVerdict(g), CurEffects(g)[j])
                 = ActionKey(CurVerdict(h), CurEffects(h)[i])
            /\ ozoneStatus[g][j] = "ok"
            /\ lookups[h][i].outcome = "hit"
            /\ ozoneStatus[h][i] = "skipped"

\* C2: a report, escalation, acknowledgement or email effect is never
\* skipped because of the memo: the cache is not consulted for it and each
\* such effect the handler gets through has had exactly one moderation-client
\* call, whatever the memo holds.
C2_NeverMemoizedAlwaysCalled ==
    \A h \in Handlers : \A i \in Finished(h) :
        CurEffects(h)[i].list \in NeverMemoized
            => /\ ozoneStatus[h][i] \in {"ok", "error"}
               /\ Cardinality(CallsFor(h, i)) = 1
               /\ lookups[h][i] = NoLookup

\* C2 witness: in one verdict the label was skipped on a memo hit (the memo
\* holds the key of this subject and rule list) and the report with the same
\* subject and rules was sent all the same.
C2_Witness ==
    \E h \in Handlers :
        /\ evtOf[h] = 1
        /\ 2 \in Finished(h)
        /\ ozoneStatus[h][1] = "skipped"
        /\ CurEffects(h)[2].list = "report"
        /\ CallsFor(h, 2) # {}
        /\ ActionKey(CurVerdict(h), CurEffects(h)[1]) \in memo


\* The effect list of verdict v a moderation-client call belongs to.
ListOf(v, list) ==
    CASE list = "label" -> v.Labels
      [] list = "tag" -> v.Tags
      [] list = "takedown" -> v.Takedowns
      [] list = "report" -> v.Reports
      [] list = "comment" -> v.Comments
      [] list = "escalation" -> v.Escalations
      [] list = "acknowledgement" -> v.Acknowledgements
      [] list = "email" -> v.Emails
      [] OTHER -> v.BigqueryFlags

\* The positions in the list es of the effects with this payload.
PosIn(es, payload) == { k \in 1..Len(es) : es[k].payload = payload }

\* C15: within one verdict every effect is applied at most once and the
\* calls for the effects of one effect list are made one after the other in
\* the order of the list: of two calls of a handler for the same list, the
\* earlier one is for the effect that stands earlier in the list.  Handlers
\* of different verdicts are separate goroutines whose calls interleave.
C15_EffectsAppliedInListOrder ==
    \A h \in Handlers :
        \A a \in 1..Len(ozoneCalls[h]), b \in 1..Len(ozoneCalls[h]) :
            a < b =>
                /\ ozoneCalls[h][a].idx # ozoneCalls[h][b].idx
                /\ ozoneCalls[h][a].list = ozoneCalls[h][b].list =>
                     \A p \in PosIn(ListOf(CurVerdict(h), ozoneCalls[h][a].list),
                                    ozoneCalls[h][a].payload) :
                     \A q \in PosIn(ListOf(CurVerdict(h), ozoneCalls[h][b].list),
                                    ozoneCalls[h][b].payload) : p < q

\* C15 witness: the handler of a verdict with two reports has sent the first
\* and then the second, while the handler of another verdict, started
\* before it, has made a call and is still at work.
C15_Witness ==
    \E g \in Handlers, h \in Handlers :
        /\ evtOf[h] = 4 /\ evtOf[g] = 3
        /\ Len(ozoneCalls[h]) >= 2
        /\ ozoneCalls[h][1].payload = "spam" /\ ozoneCalls[h][2].payload = "violation"
        /\ ozoneCalls[g] # <<>>
        /\ hpc[g] \notin {"idle", "return", "done"}

\* The LogEffect rows goroutine h wrote for its effect number i.
RowsFor(h, i) == { r \in 1..Len(effectLog[h]) : effectLog[h][r].idx = i }

\* C16 (as stated): LogEvent is invoked exactly once for every verdict a
\* handler was started for; for every effect the handler is through with,
\* LogEffect was invoked exactly once if the effect's application succeeded
\* and not at all otherwise (application failed, effect skipped or not
\* attempted).
C16_LogEventOnceLogEffectPerSuccess ==
    \A h \in Handlers :
        /\ eventLog[h] = IF hpc[h] = "idle" THEN 0 ELSE 1
        /\ \A i \in Finished(h) :
              Cardinality(RowsFor(h, i)) =
                  IF \E c \in CallsFor(h, i) : ozoneCalls[h][c].ok THEN 1 ELSE 0

\* The label effect of verdict 1 (add spam on the actor by R1) was applied
\* by goroutine g and processed again by goroutine h, whose lookup found the
\* memo entry.
SameLabelTwice(g, h) ==
    /\ g # h
    /\ evtOf[g] = 1 /\ evtOf[h] = 1
    /\ 1 \in Finished(g) /\ 1 \in Finished(h)
    /\ ozoneStatus[g][1] = "ok"
    /\ lookups[h][1].outcome = "hit"

\* C17 (as stated): when the same label effect is processed twice within the
\* memo TTL, the moderation API receives exactly one label call and the
\* effect log receives two entries for it.
C17_SecondLabelLoggedAsSkipped ==
    \A g \in Handlers, h \in Handlers :
        SameLabelTwice(g, h) =>
            /\ Cardinality(CallsFor(g, 1)) + Cardinality(CallsFor(h, 1)) = 1
            /\ Cardinality(RowsFor(g, 1)) + Cardinality(RowsFor(h, 1)) = 2

\* C17 (amended): the moderation API receives exactly one label call and the
\* effect log exactly one entry, that of the first processing; the second
\* processing writes no effect-log entry and is marked skipped only in the
\* ozone_requests counter.
C17_SecondLabelSkippedNotLogged ==
    \A g \in Handlers, h \in Handlers :
        SameLabelTwice(g, h) =>
            /\ Cardinality(CallsFor(g, 1)) = 1 /\ CallsFor(h, 1) = {}
            /\ Cardinality(RowsFor(g, 1)) = 1 /\ RowsFor(h, 1) = {}
            /\ ozoneStatus[h][1] = "skipped"
            /\ hpc[h] = "done" =>
                 Count(ozoneRequests, <<"label", "ACTOR", "skipped">>) >= 1

\* C17 witness: both handlers of the same verdict have returned, the first
\* applied the label, the second skipped it on a memo hit.
C17_Witness ==
    \E g \in Handlers, h \in Handlers :
        /\ SameLabelTwice(g, h)
        /\ hpc[g] = "done" /\ hpc[h] = "done"
        /\ ozoneCalls[g][1].op = "LabelActor"

\* The effects of goroutine h whose moderation-API call failed.
FailedEffects(h) ==
    { i \in Finished(h) :
        /\ CurEffects(h)[i].list # "bigquery-flag"
        /\ \E c \in CallsFor(h, i) : ~ozoneCalls[h][c].ok }

\* The ozone_requests increments with status error.
RECURSIVE SumOf(_, _)
SumOf(counter, keys) ==
    IF keys = {} THEN 0
    ELSE LET k == CHOOSE x \in keys : TRUE
         IN  counter[k] + SumOf(counter, keys \ {k})
ErrorRequests ==
    SumOf(ozoneRequests, { k \in DOMAIN ozoneRequests : k[3] = "error" })

\* C31: if the moderation-API call for an effect fails, the effect has
\* ozoneStatus error and is counted once in ozone_requests with status error
\* when the handler returns, no effect-log row is written for it, and the
\* handler still goes through the remaining effects of the verdict, each of
\* which is called unless the memo skips it, before it returns.
C31_FailedCallCountedNotLogged ==
    /\ \A h \in Handlers :
          /\ \A i \in FailedEffects(h) :
                /\ ozoneStatus[h][i] = "error"
                /\ RowsFor(h, i) = {}
                /\ Cardinality(CallsFor(h, i)) = 1
          /\ hpc[h] \in {"return", "done"} =>
                /\ Finished(h) = 1..Len(CurEffects(h))
                /\ \A i \in Finished(h) :
                      (CurEffects(h)[i].list # "bigquery-flag"
                         /\ ozoneStatus[h][i] # "skipped") => CallsFor(h, i) # {}
    /\ ErrorRequests =
          Cardinality(UNION { { <<h, i>> : i \in { j \in Finished(h) :
                                                       ozoneStatus[h][j] = "error" } } :
                              h \in { g \in Handlers : hpc[g] = "done" } })

\* C31 witness: the first call of a handler failed, the handler went on to
\* apply a later effect of the verdict and returned, the failure is counted
\* once, and another verdict was handed to a handler afterwards.
C31_Witness ==
    \E g \in Handlers, h \in Handlers :
        /\ g # h
        /\ hpc[g] = "done" /\ hpc[h] # "idle"
        /\ 1 \in FailedEffects(g)
        /\ \E i \in Finished(g) : i > 1 /\ ozoneStatus[g][i] = "ok" /\ RowsFor(g, i) # {}
        /\ ErrorRequests = 1

\* C33: if the memo-cache lookup of a memoized effect fails with an error
\* other than a cache miss, checkHasActioned reports "not yet actioned": the
\* effect is not skipped but handed to the moderation client, exactly once,
\* whether or not the cache holds its key.
C33_LookupErrorAppliesEffect ==
    \A h \in Handlers :
        /\ \A i \in Finished(h) :
              (Memoized(CurEffects(h)[i]) /\ lookups[h][i].outcome = "error")
                  => /\ ozoneStatus[h][i] \in {"ok", "error"}
                     /\ Cardinality(CallsFor(h, i)) = 1
        /\ lookup[h].outcome = "error" => hpc[h] \in {"add", "call"}

\* C33 witness: the lookup of a label failed while the cache held its key
\* (an identical effect had been applied before), and the label was applied
\* a second time.
C33_Witness ==
    \E g \in Handlers, h \in Handlers :
        /\ g # h
        /\ 1 \in Finished(g) /\ 1 \in Finished(h)
        /\ CurEffects(h)[1].list = "label" /\ evtOf[g] = evtOf[h]
        /\ ozoneStatus[g][1] = "ok"
        /\ lookups[h][1].outcome = "error" /\ lookups[h][1].present
        /\ ozoneStatus[h][1] = "ok"

\* Goroutine g went through checkHasActioned for its effect j and was let
\* through: it inserted the memo key of the effect.
WroteMemo(g, j) ==
    /\ j \in Finished(g)
    /\ Memoized(CurEffects(g)[j])
    /\ ozoneStatus[g][j] \in {"ok", "error"}

\* C35: a memo entry written for one memoized effect never causes a
\* different effect to be skipped: an effect skipped by the memo has the
\* kind (label, tag, takedown, comment), the payload and the direction of
\* every effect whose handler wrote the same key.
C35_MemoSkipsOnlySameEffect ==
    \A g \in Handlers, h \in Handlers :
        \A j \in Finished(g), i \in Finished(h) :
            ( /\ WroteMemo(g, j)
              /\ Memoized(CurEffects(h)[i])
              /\ ozoneStatus[h][i] = "skipped"
              /\ ActionKey(CurVerdict(g), CurEffects(g)[j])
                   = ActionKey(CurVerdict(h), CurEffects(h)[i]) )
                => /\ CurEffects(g)[j].list = CurEffects(h)[i].list
                   /\ CurEffects(g)[j].payload = CurEffects(h)[i].payload
                   /\ CurEffects(g)[j].remove = CurEffects(h)[i].remove

\* Some handler applied an effect with the memo key of effect i of goroutine
\* h, and the moderation API accepted it.
AppliedWithKeyOf(h, i) ==
    \E g \in Handlers : \E j \in Finished(g) :
        /\ WroteMemo(g, j)
        /\ ozoneStatus[g][j] = "ok"
        /\ ActionKey(CurVerdict(g), CurEffects(g)[j])
             = ActionKey(CurVerdict(h), CurEffects(h)[i])

\* C36: if the moderation-API call of a memoized effect fails, the effect
\* is not treated as actioned: when a handler's call for an effect failed
\* and an identical effect (same subject, rules, kind, payload) is skipped
\* by the memo, some application with that memo key had succeeded.
C36_SkipFollowsSuccessfulApplication ==
    \A g \in Handlers, h \in Handlers :
        \A j \in Finished(g), i \in Finished(h) :
            ( /\ WroteMemo(g, j) /\ ozoneStatus[g][j] = "error"
              /\ Memoized(CurEffects(h)[i])
              /\ ozoneStatus[h][i] = "skipped"
              /\ CurEffects(g)[j] = CurEffects(h)[i]
              /\ ActionKey(CurVerdict(g), CurEffects(g)[j])
                   = ActionKey(CurVerdict(h), CurEffects(h)[i]) )
                => AppliedWithKeyOf(h, i)

\* Goroutine g came out of checkHasActioned with false for its effect j: it
\* has inserted the memo key and makes, or has made, the moderation call.
LetThrough(g, j) ==
    \/ WroteMemo(g, j)
    \/ hidx[g] = j /\ hpc[g] = "call" /\ Memoized(CurEffect(g))

\* C37: the cache holds no entry to begin with; when identical memoized
\* effects are processed concurrently, the read-then-insert never causes all
\* of them to be skipped: an effect is skipped only if another handler of
\* this effector was let through with the same key, or another replica
\* inserted the key (and applies the effect itself).
C37_NeverAllSkipped ==
    \A h \in Handlers : \A i \in Finished(h) :
        ozoneStatus[h][i] = "skipped" =>
            \/ ActionKey(CurVerdict(h), CurEffects(h)[i]) \in replicaKeys
            \/ \E g \in { f \in Handlers \ {h} : hpc[f] # "idle" } :
                  \E j \in 1..Len(CurEffects(g)) :
                      /\ LetThrough(g, j)
                      /\ ActionKey(CurVerdict(g), CurEffects(g)[j])
                           = ActionKey(CurVerdict(h), CurEffects(h)[i])

\* C37 witness: two handlers of the same verdict ran their lookups before
\* either had inserted the key: both missed and both applied the label.
C37_Witness ==
    \E g \in Handlers, h \in Handlers :
        /\ g # h /\ evtOf[g] = evtOf[h]
        /\ 1 \in Finished(g) /\ 1 \in Finished(h)
        /\ CurEffects(g)[1].list = "label"
        /\ lookups[g][1].outcome = "miss" /\ lookups[h][1].outcome = "miss"
        /\ ozoneStatus[g][1] = "ok" /\ ozoneStatus[h][1] = "ok"
        /\ replicaKeys = {}
(***************************************************************************)
(* Effector shutdown: OspreyEffector.Run on SIGINT/SIGTERM                 *)
(* (src/effector/receiver.go)                                              *)
(***************************************************************************)
RECURSIVE EventRowsUpTo(_), EffectRowsUpTo(_)
\* Rows the handlers have handed to the eventInserter (LogEvent -> Insert).
EventRowsUpTo(h) == IF h = 0 THEN 0 ELSE eventLog[h] + EventRowsUpTo(h - 1)
EventRows == EventRowsUpTo(MaxVerdicts)

\* Rows the handlers have handed to the effectInserter (LogEffect -> Insert).
EffectRowsUpTo(h) == IF h = 0 THEN 0 ELSE Len(effectLog[h]) + EffectRowsUpTo(h - 1)
EffectRows == EffectRowsUpTo(MaxVerdicts)

SdInit ==
    /\ runPc = "running"
    /\ consumerOpen = TRUE
    /\ eventFlush = Nil
    /\ effectFlush = Nil

\* <-signals; close(shutdownConsumer)
Signal ==
    /\ runPc = "running"
    /\ runPc' = "signalled"
    /\ UNCHANGED <<consumerOpen, eventFlush, effectFlush>>
    /\ UNCHANGED <<effVars, notSdVars>>

\* The consumer goroutine: <-shutdownConsumer; or.consumer.Close(); cancel()
ConsumerClose ==
    /\ runPc # "running"
    /\ Alive
    /\ consumerOpen
    /\ consumerOpen' = FALSE
    /\ UNCHANGED <<runPc, eventFlush, effectFlush>>
    /\ UNCHANGED <<effVars, notSdVars>>

\* BigQueryLogger.Close, first half: l.eventInserter.Close() flushes what
\* the queue holds.
CloseEventInserter ==
    /\ runPc = "signalled"
    /\ eventFlush' = <<EventRows>>
    /\ runPc' = "eventsClosed"
    /\ UNCHANGED <<consumerOpen, effectFlush>>
    /\ UNCHANGED <<effVars, notSdVars>>

\* BigQueryLogger.Close, second half: l.effectInserter.Close()
CloseEffectInserter ==
    /\ runPc = "eventsClosed"
    /\ effectFlush' = <<EffectRows>>
    /\ runPc' = "closed"
    /\ UNCHANGED <<consumerOpen, eventFlush>>
    /\ UNCHANGED <<effVars, notSdVars>>

\* return nil
RunReturn ==
    /\ runPc = "closed"
    /\ runPc' = "returned"
    /\ UNCHANGED <<consumerOpen, eventFlush, effectFlush>>
    /\ UNCHANGED <<effVars, notSdVars>>

SdNext ==
    \/ EffNext
    \/ Signal
    \/ ConsumerClose
    \/ CloseEventInserter
    \/ CloseEffectInserter
    \/ RunReturn

\* C28: on SIGINT/SIGTERM the effector lets the in-flight verdict handlers
\* finish before it closes the logger batches, so that no row is appended to
\* an inserter queue after that inserter's final flush: the rows handed to
\* an inserter are, from its final flush on, the rows that flush saw.
C28_NoRowAfterFinalFlush ==
    /\ eventFlush # Nil => EventRows = eventFlush[1]
    /\ effectFlush # Nil => EffectRows = effectFlush[1]

(***************************************************************************)
(* CONVERTER  (src/converter/converter.go)                                 *)
(***************************************************************************)
\* Bounds: frames on the firehose, scheduler workers (50 in the program),
\* periodic cursor saves, failing ProduceAsync calls.
MaxSeq == 3
MaxWorkers == 2
MaxSaves == 1
MaxProduceErrors == 1

Workers == 1..MaxWorkers


DidA == "did:plc:a"
DidB == "did:plc:b"
Dids == {DidA, DidB}

\* One record operation of a commit frame.  cid: the address the op declares
\* (Nil when absent); block: the address of the record found in the CAR for
\* op.Path (Nil when GetRecordBytes fails); cbor: whether UnmarshalCBOR (and
\* the JSON marshalling) of the block succeeds; record: its canonical JSON.
Op(action, path, cid, block, cbor, record) ==
    [action |-> action, path |-> path, cid |-> cid, block |-> block,
     cbor |-> cbor, record |-> record]

Commit(did, ops) ==
    [kind |-> "commit", did |-> did, tooBig |-> FALSE, carOk |-> TRUE, ops |-> ops]
Other(kind, did) ==
    [kind |-> kind, did |-> did, tooBig |-> FALSE, carOk |-> TRUE, ops |-> <<>>]

\* What the relay sends, by sequence number (repeated cyclically).
FramePatterns == <<
    Commit(DidA, << Op("create", "app.bsky.feed.post/1", <<"c1">>, <<"c1">>, TRUE, "{1}"),
                    Op("delete", "app.bsky.feed.post/0", Nil, Nil, TRUE, "") >>),
    Commit(DidB, << Op("create", "app.bsky.feed.post/2", <<"c2">>, <<"cX">>, TRUE, "{2}"),
                    Op("create", "app.bsky.feed.post/9", <<"c9">>, Nil, TRUE, "{9}"),
                    Op("update", "app.bsky.feed.post/3", <<"cA">>, <<"cA">>, FALSE, "{A}"),
                    Op("update", "app.bsky.actor.profile/self", <<"c3">>, <<"c3">>, TRUE, "{3}") >>),
    Commit(DidA, << Op("update", "app.bsky.feed.post/1", <<"c4">>, <<"c4">>, TRUE, "{4}"),
                    Op("create", "app.bsky.feed.post/5", Nil, <<"c5">>, TRUE, "{5}") >>),
    Other("identity", DidB),
    Other("account", DidA),
    Commit(DidB, << Op("create", "app.bsky.feed.post/6", <<"c6">>, Nil, TRUE, "{6}"),
                    Op("update", "app.bsky.feed.post/2", <<"c7">>, <<"c7">>, FALSE, "{7}"),
                    Op("noop", "app.bsky.feed.post/8", <<"c8">>, <<"c8">>, TRUE, "{8}") >>)
>>

\* Indexes of the ops of a frame (0: the event of an identity or account frame).
OpIndexes == UNION { 0..Len(FramePatterns[k].ops) : k \in 1..Len(FramePatterns) }

Frame(seq) == FramePatterns[((seq - 1) % Len(FramePatterns)) + 1]

\* strings.Split(op.Path, "/")[0] and [1]
Collection(path) == SubSeq(path, 1, SlashAt(path, 1) - 1)
RECURSIVE Rkey(_)
Rkey(path) ==
    LET rest == SubSeq(path, SlashAt(path, 1) + 1, Len(path))
    IN  IF SlashAt(rest, 1) = 0 THEN rest ELSE SubSeq(rest, 1, SlashAt(rest, 1) - 1)

Present(ptr) == ptr # Nil

\* c.cursorOverride >= 0  (Run; the flag defaults to -1)
OverrideSetPositiveOnly(override) == override > 0

OverrideSet(override) == override >= 0

\* Values of --cursor-override tried at start-up.
CursorOverrides == {-1, 0, 2}

\* isFinalConverterCursor
isFinalConverterCursor(c) == c # Nil /\ c[1].savedOnExit

\* cursor.Load(ctx, isFinalConverterCursor) of the bus cursor store: the most
\* recent record the selector accepts, else the latest record, else nil.
RECURSIVE LastFinal(_)
LastFinal(log) ==
    IF log = <<>> THEN Nil
    ELSE IF isFinalConverterCursor(<<log[Len(log)]>>) THEN <<log[Len(log)]>>
    ELSE LastFinal(SubSeq(log, 1, Len(log) - 1))

Load(log) ==
    IF log = <<>> THEN Nil
    ELSE IF LastFinal(log) # Nil THEN LastFinal(log)
    ELSE <<log[Len(log)]>>

\* loadCursor: the value c.lastCursor has afterwards
loadCursor(log) == IF Load(log) # Nil THEN <<Load(log)[1].sequence>> ELSE Nil

\* updateCursor: the high-water mark only moves up
updateCursorAlways(last, seq) == <<seq>>

updateCursor(last, seq) ==
    IF last = Nil \/ seq > last[1] THEN <<seq>> ELSE last

\* recCid != op.Cid.String()
CidMismatchIgnored(recCid, opCid) == FALSE

CidMismatch(recCid, opCid) == recCid # opCid

\* The create and update cases of the per-op closure of handleRepoCommit:
\* whether they get past their four early returns.
RecordAccepted(op) ==
    IF op.cid = Nil THEN FALSE
    ELSE IF op.block = Nil THEN FALSE
    ELSE IF CidMismatch(op.block[1], op.cid[1]) THEN FALSE
    ELSE op.cbor

\* switch ek: whether the closure reaches ProduceAsync for the op.
OpAccepted(op) ==
    CASE op.action = "create" -> RecordAccepted(op)
      [] op.action = "update" -> RecordAccepted(op)
      [] op.action = "delete" -> TRUE
      [] OTHER -> FALSE

\* e.Commit of an accepted op.
OpCommit(op) ==
    IF op.action = "delete"
    THEN [operation |-> "DELETE",
          collection |-> Collection(op.path), rkey |-> Rkey(op.path),
          record |-> Nil, cid |-> ""]
    ELSE [operation |-> IF op.action = "create" THEN "CREATE" ELSE "UPDATE",
          collection |-> Collection(op.path), rkey |-> Rkey(op.path),
          record |-> <<op.record>>, cid |-> op.block[1]]

\* The FirehoseEvent handed to ProduceAsync (key: the DID).  src and run say
\* which frame, op and process run the message came from.
CommitEvent(seq, i, run) ==
    LET f == Frame(seq)
        c == OpCommit(f.ops[i])
    IN  [key |-> f.did, did |-> f.did, kind |-> "COMMIT", operation |-> c.operation,
         collection |-> c.collection, rkey |-> c.rkey, record |-> c.record,
         cid |-> c.cid, src |-> <<seq, i>>, run |-> run]

PlainEvent(seq, run) ==
    LET f == Frame(seq)
    IN  [key |-> f.did, did |-> f.did,
         kind |-> IF f.kind = "identity" THEN "IDENTITY" ELSE "ACCOUNT",
         operation |-> "", collection |-> "", rkey |-> "", record |-> Nil,
         cid |-> "", src |-> <<seq, 0>>, run |-> run]

\* A handleRepoCommit that gives up on the commit at its first failing op.
EmittingUntilFailure(seq) ==
    LET f == Frame(seq)
    IN  IF f.kind # "commit" THEN {0}
        ELSE IF f.tooBig \/ ~f.carOk THEN {}
        ELSE { i \in 1..Len(f.ops) : \A j \in 1..i : OpAccepted(f.ops[j]) }

\* Ops of a frame for which handleStreamEvent reaches ProduceAsync
\* (index 0 stands for the single event of an identity or account frame).
Emitting(seq) ==
    LET f == Frame(seq)
    IN  IF f.kind # "commit" THEN {0}
        ELSE IF f.tooBig \/ ~f.carOk THEN {}
        ELSE { i \in 1..Len(f.ops) : OpAccepted(f.ops[i]) }

\* handleStreamEvent on frame seq: the messages enqueued, in order, when the
\* ProduceAsync calls of the ops in failed return an error.
RECURSIVE Enqueued(_, _, _, _)
Enqueued(seq, i, failed, run) ==
    LET f == Frame(seq)
    IN  IF f.kind # "commit"
        THEN IF 0 \in failed THEN <<>> ELSE <<PlainEvent(seq, run)>>
        ELSE IF i > Len(f.ops) THEN <<>>
        ELSE IF i \in Emitting(seq) /\ i \notin failed
             THEN <<CommitEvent(seq, i, run)>> \o Enqueued(seq, i + 1, failed, run)
             ELSE Enqueued(seq, i + 1, failed, run)

\* The eventsReceived / eventsProduced increments of handleStreamEvent.
RECURSIVE ReceivedLabels(_, _)
ReceivedLabels(seq, i) ==
    LET f == Frame(seq)
    IN  IF f.kind # "commit" THEN << <<f.kind, "ok">> >>
        ELSE IF f.tooBig \/ ~f.carOk \/ i > Len(f.ops) THEN <<>>
        ELSE << <<"commit", IF i \in Emitting(seq) THEN "ok" ELSE "error">> >>
                \o ReceivedLabels(seq, i + 1)

RECURSIVE ProducedLabels(_, _, _)
ProducedLabels(seq, i, failed) ==
    LET f == Frame(seq)
    IN  IF f.kind # "commit" THEN << <<f.kind, IF 0 \in failed THEN "error" ELSE "ok">> >>
        ELSE IF f.tooBig \/ ~f.carOk \/ i > Len(f.ops) THEN <<>>
        ELSE IF i \in Emitting(seq)
             THEN << <<"commit", IF i \in failed THEN "error" ELSE "ok">> >>
                     \o ProducedLabels(seq, i + 1, failed)
             ELSE ProducedLabels(seq, i + 1, failed)

\* Whether handleStreamEvent moves the cursor for the frame (a tooBig commit
\* returns before handleRepoCommit and its deferred updateCursor).
UpdatesCursor(seq) == ~(Frame(seq).kind = "commit" /\ Frame(seq).tooBig)

Up == {"serving", "stopping", "awaitSave"}

\* Process runs that wrote a message or a cursor record: an earlier one, this one.
EarlierRun == "earlier"
ThisRun == "this"

\* osprey.Cursor{Sequence: *c.lastCursor, SavedOnExit: true}
FinalRecordUnmarked(seq, run) == [sequence |-> seq, savedOnExit |-> FALSE, run |-> run]

FinalRecord(seq, run) == [sequence |-> seq, savedOnExit |-> TRUE, run |-> run]

\* osprey.Cursor{Sequence: *last}
PeriodicRecord(seq, run) == [sequence |-> seq, savedOnExit |-> FALSE, run |-> run]

\* What earlier runs of the consumer group left behind: the cursor topic and
\* the last frame the relay had sent (all frames up to it are on the bus).
Histories == {
    [log |-> <<>>, head |-> 0],
    [log |-> <<FinalRecord(1, EarlierRun)>>, head |-> 1],
    [log |-> <<PeriodicRecord(1, EarlierRun), PeriodicRecord(2, EarlierRun)>>, head |-> 2],
    [log |-> <<FinalRecord(1, EarlierRun), PeriodicRecord(2, EarlierRun)>>, head |-> 2] }

RECURSIVE EarlierBus(_)
EarlierBus(head) ==
    IF head = 0 THEN <<>>
    ELSE EarlierBus(head - 1) \o Enqueued(head, 1, {}, EarlierRun)

NoWork == [on |-> FALSE, q |-> <<>>]

\* Run has not returned; Run returned nil.
NotReturned == "running"
ReturnedNil == "nil"

\* Errors HandleRepoStream returns: the context was cancelled, the
\* connection failed.
Canceled == <<"context canceled">>
ConnectionFailed == <<"websocket: close 1006 (abnormal closure)">>

\* main: log.Fatal when app.Run returns an error, which run does when
\* cvtr.Run returns one.
ExitCode(err) == IF err = ReturnedNil THEN 0 ELSE 1

CvInit ==
    /\ cvPc = "down"
    /\ cursorOverride = -1
    /\ lastCursor = Nil
    /\ urlCursor = Nil
    /\ nextRead = 1
    /\ streamPc = "off"
    /\ active = [d \in Dids |-> NoWork]
    /\ worker = [w \in Workers |-> 0]
    /\ producerClosed = FALSE
    /\ \E h \in Histories : /\ cursorLog = h.log
                           /\ bus = EarlierBus(h.head)
                           /\ relayHead = h.head
    /\ savePc = "off"
    /\ finalSave = "none"
    /\ graceExpired = {}
    /\ eventsReceived = <<>>
    /\ eventsProduced = <<>>
    /\ produceErrs = 0
    /\ handled = {}
    /\ streamErr = Nil
    /\ runErr = NotReturned
    /\ flushCursor = Nil

\* Run, up to the point where its goroutines are started: cursor selection,
\* subscription URL, save loop, consumer, signal handler.
Run(override) ==
    /\ cvPc = "down"
    /\ cursorOverride' = override
    /\ lastCursor' = IF OverrideSet(override) THEN <<override>> ELSE loadCursor(cursorLog)
    /\ urlCursor' = lastCursor'
    /\ nextRead' = IF Present(lastCursor') THEN lastCursor'[1] + 1 ELSE relayHead + 1
    /\ cvPc' = "serving"
    /\ streamPc' = "reading"
    /\ savePc' = "loop"
    /\ active' = [d \in Dids |-> NoWork]
    /\ worker' = [w \in Workers |-> 0]
    /\ producerClosed' = FALSE
    /\ finalSave' = "none"
    /\ graceExpired' = {}
    /\ eventsReceived' = <<>>
    /\ eventsProduced' = <<>>
    /\ handled' = {}
    /\ streamErr' = Nil
    /\ runErr' = NotReturned
    /\ flushCursor' = Nil
    /\ UNCHANGED <<relayHead, bus, cursorLog, produceErrs>>
    /\ UNCHANGED notCvVars

\* The scheduler takes the repo's queue only while a task of the repo runs.
IsActiveNever(did) == FALSE

IsActive(did) == active[did].on

\* HandleRepoStream reads the next frame and hands it to scheduler.AddWork:
\* queued behind the repo's running task, or given to a free worker.
AddWork(w) ==
    /\ cvPc \in Up
    /\ streamPc = "reading"
    /\ nextRead <= MaxSeq
    /\ LET did == Frame(nextRead).did
       IN  IF IsActive(did)
           THEN /\ w = 1
                /\ active' = [active EXCEPT ![did].q = Append(@, nextRead)]
                /\ UNCHANGED worker
           ELSE /\ worker[w] = 0
                /\ \A v \in Workers : v < w => worker[v] # 0
                /\ worker' = [worker EXCEPT ![w] = nextRead]
                /\ active' = [active EXCEPT ![did] = [on |-> TRUE, q |-> @.q]]
    /\ nextRead' = nextRead + 1
    /\ UNCHANGED <<cvPc, cursorOverride, lastCursor, urlCursor, relayHead, streamPc, bus,
                   producerClosed, cursorLog, savePc, finalSave, graceExpired,
                   eventsReceived, eventsProduced, produceErrs, handled, streamErr, runErr, flushCursor>>
    /\ UNCHANGED notCvVars

\* A scheduler worker runs handleStreamEvent on its frame, then takes the
\* next queued frame of the same repo or goes back to the feeder.
HandleStreamEvent(w, failed) ==
    /\ cvPc \in Up
    /\ worker[w] # 0
    /\ LET seq == worker[w]
           did == Frame(seq).did
       IN  /\ failed \subseteq Emitting(seq)
           /\ IF producerClosed
              THEN failed = Emitting(seq) /\ UNCHANGED produceErrs
              ELSE /\ produceErrs + Cardinality(failed) <= MaxProduceErrors
                   /\ produceErrs' = produceErrs + Cardinality(failed)
           /\ bus' = bus \o Enqueued(seq, 1, failed, ThisRun)
           /\ eventsReceived' = IncAll(eventsReceived, ReceivedLabels(seq, 1))
           /\ eventsProduced' = IncAll(eventsProduced, ProducedLabels(seq, 1, failed))
           /\ lastCursor' = IF UpdatesCursor(seq) THEN updateCursor(lastCursor, seq)
                            ELSE lastCursor
           /\ handled' = handled \cup {seq}
           /\ IF active[did].q = <<>>
              THEN /\ active' = [active EXCEPT ![did] = NoWork]
                   /\ worker' = [worker EXCEPT ![w] = 0]
              ELSE /\ active' = [active EXCEPT ![did].q = Tail(@)]
                   /\ worker' = [worker EXCEPT ![w] = Head(active[did].q)]
    /\ UNCHANGED <<cvPc, cursorOverride, urlCursor, nextRead, relayHead, streamPc,
                   producerClosed, cursorLog, savePc, finalSave, graceExpired,
                   streamErr, runErr, flushCursor>>
    /\ UNCHANGED notCvVars

\* The websocket fails: HandleRepoStream leaves its read loop with an error
\* and shuts the scheduler down.
StreamDies ==
    /\ cvPc = "serving"
    /\ streamPc = "reading"
    /\ streamPc' = "draining"
    /\ streamErr' = ConnectionFailed
    /\ UNCHANGED <<cvPc, cursorOverride, lastCursor, urlCursor, nextRead, relayHead,
                   active, worker, bus, producerClosed, cursorLog, savePc, finalSave,
                   graceExpired, eventsReceived, eventsProduced, produceErrs, handled, runErr, flushCursor>>
    /\ UNCHANGED notCvVars

\* cancel() after close(shutdownRepoStream): HandleRepoStream leaves its read
\* loop and shuts the scheduler down.
StreamCancelled ==
    /\ cvPc \in {"stopping", "awaitSave"}
    /\ streamPc = "reading"
    /\ streamPc' = "draining"
    /\ streamErr' = Canceled
    /\ UNCHANGED <<cvPc, cursorOverride, lastCursor, urlCursor, nextRead, relayHead,
                   active, worker, bus, producerClosed, cursorLog, savePc, finalSave,
                   graceExpired, eventsReceived, eventsProduced, produceErrs, handled, runErr, flushCursor>>
    /\ UNCHANGED notCvVars

\* scheduler.Shutdown returns once every worker has finished its work;
\* HandleRepoStream returns, eventsKill and repoStreamShutdown are closed.
StreamClosed ==
    /\ cvPc \in Up
    /\ streamPc = "draining"
    /\ \A w \in Workers : worker[w] = 0
    /\ streamPc' = "closed"
    /\ UNCHANGED <<cvPc, cursorOverride, lastCursor, urlCursor, nextRead, relayHead,
                   active, worker, bus, producerClosed, cursorLog, savePc, finalSave,
                   graceExpired, eventsReceived, eventsProduced, produceErrs, handled, streamErr, runErr, flushCursor>>
    /\ UNCHANGED notCvVars

\* Signal handler goroutine, first select: SIGINT/SIGTERM or eventsKill;
\* then close(shutdownRepoStream).
ExitSignal(cause) ==
    /\ cvPc = "serving"
    /\ cause = "eventsKill" => streamPc = "closed"
    /\ cvPc' = "stopping"
    /\ UNCHANGED <<cursorOverride, lastCursor, urlCursor, nextRead, relayHead,
                   streamPc, active, worker, bus, producerClosed, cursorLog, savePc,
                   finalSave, graceExpired, eventsReceived, eventsProduced, produceErrs, handled, streamErr, runErr, flushCursor>>
    /\ UNCHANGED notCvVars

\* Second select: repoStreamShutdown or time.After(5 s); then
\* busProducer.Close() and close(cursorSaveShutdown).
AwaitStream(expired) ==
    /\ cvPc = "stopping"
    /\ ~expired => streamPc = "closed"
    /\ graceExpired' = IF expired THEN graceExpired \cup {"consumer"} ELSE graceExpired
    /\ producerClosed' = TRUE
    /\ flushCursor' = <<lastCursor>>
    /\ cvPc' = "awaitSave"
    /\ UNCHANGED <<cursorOverride, lastCursor, urlCursor, nextRead, relayHead,
                   streamPc, active, worker, bus, cursorLog, savePc, finalSave,
                   eventsReceived, eventsProduced, produceErrs, handled, streamErr, runErr>>
    /\ UNCHANGED notCvVars

\* Third select: lastCursorSaved or time.After(5 s); then close(quit) and Run
\* returns nil, which ends the process.
AwaitSave(expired) ==
    /\ cvPc = "awaitSave"
    /\ ~expired => savePc = "exited"
    /\ graceExpired' = IF expired THEN graceExpired \cup {"save"} ELSE graceExpired
    /\ cvPc' = "returned"
    /\ runErr' = ReturnedNil
    /\ UNCHANGED <<cursorOverride, lastCursor, urlCursor, nextRead, relayHead,
                   streamPc, active, worker, bus, producerClosed, cursorLog, savePc,
                   finalSave, eventsReceived, eventsProduced, produceErrs, handled, streamErr, flushCursor>>
    /\ UNCHANGED notCvVars

PeriodicRecords == SelectSeq(cursorLog, LAMBDA r : ~r.savedOnExit /\ r.run = ThisRun)

\* periodicallySaveCursor, ticker case: persist the high-water mark if any.
PeriodicSave(ok) ==
    /\ cvPc \in Up
    /\ savePc = "loop"
    /\ Len(PeriodicRecords) < MaxSaves
    /\ cursorLog' = IF Present(lastCursor) /\ ok
                    THEN Append(cursorLog, PeriodicRecord(lastCursor[1], ThisRun))
                    ELSE cursorLog
    /\ UNCHANGED <<cvPc, cursorOverride, lastCursor, urlCursor, nextRead, relayHead,
                   streamPc, active, worker, bus, producerClosed, savePc, finalSave,
                   graceExpired, eventsReceived, eventsProduced, produceErrs, handled, streamErr, runErr, flushCursor>>
    /\ UNCHANGED notCvVars

\* periodicallySaveCursor, cursorSaveShutdown case: return, and in the
\* deferred function save the final cursor and close(lastCursorSaved).
FinalSave(ok) ==
    /\ cvPc = "awaitSave"
    /\ savePc = "loop"
    /\ ~Present(lastCursor) => ok
    /\ cursorLog' = IF Present(lastCursor) /\ ok
                    THEN Append(cursorLog, FinalRecord(lastCursor[1], ThisRun))
                    ELSE cursorLog
    /\ finalSave' = IF ~Present(lastCursor) THEN "nil" ELSE IF ok THEN "ok" ELSE "failed"
    /\ savePc' = "exited"
    /\ UNCHANGED <<cvPc, cursorOverride, lastCursor, urlCursor, nextRead, relayHead,
                   streamPc, active, worker, bus, producerClosed, graceExpired,
                   eventsReceived, eventsProduced, produceErrs, handled, streamErr, runErr, flushCursor>>
    /\ UNCHANGED notCvVars

\* The process is killed: everything but the bus and the cursor topic is lost.
Crash ==
    /\ cvPc \in Up
    /\ cvPc' = "crashed"
    /\ lastCursor' = Nil
    /\ urlCursor' = Nil
    /\ nextRead' = 1
    /\ streamPc' = "off"
    /\ active' = [d \in Dids |-> NoWork]
    /\ worker' = [w \in Workers |-> 0]
    /\ producerClosed' = FALSE
    /\ savePc' = "off"
    /\ finalSave' = "none"
    /\ graceExpired' = {}
    /\ eventsReceived' = <<>>
    /\ eventsProduced' = <<>>
    /\ handled' = {}
    /\ streamErr' = Nil
    /\ runErr' = NotReturned
    /\ flushCursor' = Nil
    /\ UNCHANGED <<cursorOverride, relayHead, bus, cursorLog, produceErrs>>
    /\ UNCHANGED notCvVars

CvNext ==
    \/ \E override \in CursorOverrides : Run(override)
    \/ \E w \in Workers : AddWork(w)
    \/ \E w \in Workers : \E failed \in SUBSET OpIndexes : HandleStreamEvent(w, failed)
    \/ StreamDies
    \/ StreamCancelled
    \/ StreamClosed
    \/ \E cause \in {"signal", "eventsKill"} : ExitSignal(cause)
    \/ \E expired \in BOOLEAN : AwaitStream(expired)
    \/ \E expired \in BOOLEAN : AwaitSave(expired)
    \/ \E ok \in BOOLEAN : PeriodicSave(ok)
    \/ \E ok \in BOOLEAN : FinalSave(ok)
    \/ Crash

(***************************************************************************)
(* Converter claims                                                        *)
(***************************************************************************)
OnBus(seq, i) == \E k \in 1..Len(bus) : bus[k].src = <<seq, i>>

ThisRunBus == { k \in 1..Len(bus) : bus[k].run = ThisRun }

EarlierRecords == SelectSeq(cursorLog, LAMBDA r : r.run = EarlierRun)
ThisRunRecords == SelectSeq(cursorLog, LAMBDA r : r.run = ThisRun)

Stopped == cvPc \in {"crashed", "returned"}

\* The lowest sequence a restart can resume from: that of the latest record
\* or of the latest record with savedOnExit, whichever is lower.
ResumeFloor ==
    LET finals == { i \in 1..Len(cursorLog) : cursorLog[i].savedOnExit }
        latest == cursorLog[Len(cursorLog)].sequence
    IN  IF finals = {} THEN latest
        ELSE LET f == cursorLog[CHOOSE i \in finals : \A j \in finals : j <= i].sequence
             IN  IF f < latest THEN f ELSE latest

\* C3 (as stated): at-least-once delivery.  Whenever the process has stopped
\* (crash or shutdown) and was not started with a cursor override, every op
\* with a valid record of every frame whose sequence is at most the persisted
\* cursor a restart resumes from is on the bus.
C3_NothingBelowCursorMissing ==
    (Stopped /\ cursorOverride < 0 /\ cursorLog # <<>>)
        => \A seq \in 1..MaxSeq :
               seq <= ResumeFloor => \A i \in Emitting(seq) : OnBus(seq, i)

\* C4 (as stated): the sequence numbers of the successive records on the
\* cursor topic never decrease, over periodic saves, the save on exit and
\* restarts.
C4_PersistedNeverDecreases ==
    \A i, j \in 1..Len(cursorLog) :
        i < j => cursorLog[i].sequence <= cursorLog[j].sequence

\* C4 (amended): the records one run of the process writes (periodic saves,
\* then the save on exit) never decrease and are never below the sequence
\* the run subscribed with.
C4_PersistedNeverDecreasesWithinRun ==
    /\ \A i, j \in 1..Len(ThisRunRecords) :
           i < j => ThisRunRecords[i].sequence <= ThisRunRecords[j].sequence
    /\ (cvPc \in Up \cup {"returned"} /\ Present(urlCursor))
           => \A i \in 1..Len(ThisRunRecords) :
                  urlCursor[1] <= ThisRunRecords[i].sequence

\* C4 witness: a run that resumed from a persisted cursor wrote a periodic
\* record and later a higher record on exit.
C4_Witness ==
    /\ cursorOverride < 0
    /\ cvPc = "returned"
    /\ EarlierRecords # <<>>
    /\ Len(ThisRunRecords) >= 2
    /\ ~ThisRunRecords[1].savedOnExit
    /\ ThisRunRecords[Len(ThisRunRecords)].savedOnExit
    /\ ThisRunRecords[1].sequence < ThisRunRecords[Len(ThisRunRecords)].sequence

\* C5: within one subscription, the commit events of one DID are on the bus,
\* keyed by that DID, in firehose order (frame sequence, then op index),
\* whatever the interleaving of the scheduler's workers.
C5_SameDidInSourceOrder ==
    \A j, k \in ThisRunBus :
        /\ bus[j].key = Frame(bus[j].src[1]).did
        /\ (j < k /\ bus[j].key = bus[k].key)
               => \/ bus[j].src[1] < bus[k].src[1]
                  \/ bus[j].src[1] = bus[k].src[1] /\ bus[j].src[2] < bus[k].src[2]

\* C5 witness: two workers ran in parallel: an event of a later frame of one
\* DID is on the bus before the events of two frames of another DID, which
\* are in source order.
C5_Witness ==
    \E i, j, k \in ThisRunBus :
        /\ i < j /\ j < k
        /\ bus[i].did = DidB /\ bus[j].did = DidA /\ bus[k].did = DidA
        /\ bus[i].kind = "COMMIT" /\ bus[j].kind = "COMMIT" /\ bus[k].kind = "COMMIT"
        /\ bus[j].src[1] < bus[i].src[1]
        /\ bus[j].src[1] < bus[k].src[1]

SourceOp(e) == Frame(e.src[1]).ops[e.src[2]]

\* Ops handled in this run for which no event was built.
RejectedOps ==
    { so \in handled \X OpIndexes :
        /\ Frame(so[1]).kind = "commit"
        /\ so[2] \in 1..Len(Frame(so[1]).ops)
        /\ so[2] \notin Emitting(so[1]) }

\* Ops handled in this run whose record address differs from the declared one.
MismatchedOps ==
    { so \in handled \X OpIndexes :
        /\ Frame(so[1]).kind = "commit"
        /\ so[2] \in 1..Len(Frame(so[1]).ops)
        /\ LET op == Frame(so[1]).ops[so[2]]
           IN  /\ op.action \in {"create", "update"}
               /\ op.cid # Nil /\ op.block # Nil
               /\ op.cid # op.block }

\* C6: every COMMIT event on the bus of a CREATE or UPDATE op carries the
\* address the source op declares, which is the address of the decoded
\* record, and the record bytes; an op whose record address differs is not
\* on the bus and is counted once with status error; the event of a DELETE
\* op carries no record bytes and no address.
C6_EmittedCommitsAreConsistent ==
    /\ \A k \in 1..Len(bus) :
           bus[k].kind = "COMMIT" =>
               LET e == bus[k]
                   op == SourceOp(e)
               IN  /\ op.action \in {"create", "update", "delete"}
                   /\ op.action = "create" => e.operation = "CREATE"
                   /\ op.action = "update" => e.operation = "UPDATE"
                   /\ op.action = "delete" => e.operation = "DELETE"
                   /\ e.operation \in {"CREATE", "UPDATE"} =>
                          /\ op.cid # Nil
                          /\ e.cid = op.cid[1]
                          /\ op.block = op.cid
                          /\ e.record = <<op.record>>
                   /\ e.operation = "DELETE" => (e.record = Nil /\ e.cid = "")
    /\ \A so \in MismatchedOps : ~\E k \in ThisRunBus : bus[k].src = so
    /\ Count(eventsReceived, <<"commit", "error">>) = Cardinality(RejectedOps)

\* C6 witness: a frame with a mismatched op has been handled and counted, and
\* this run put a CREATE, an UPDATE and a DELETE event on the bus.
C6_Witness ==
    /\ MismatchedOps # {}
    /\ Count(eventsReceived, <<"commit", "error">>) >= 1
    /\ \E i, j, k \in ThisRunBus :
           /\ bus[i].operation = "CREATE"
           /\ bus[j].operation = "UPDATE"
           /\ bus[k].operation = "DELETE"

LastRecord == cursorLog[Len(cursorLog)]

IsFinalOf(r, seq) == r.savedOnExit /\ r.sequence = seq /\ r.run = ThisRun

C8_StartingSequence ==
    cvPc \in Up \cup {"returned"} =>
        LET finals == { i \in 1..Len(EarlierRecords) : EarlierRecords[i].savedOnExit }
            lastFinal == CHOOSE i \in finals : \A j \in finals : j <= i
        IN  /\ cursorOverride >= 0 => urlCursor = <<cursorOverride>>
            /\ (cursorOverride < 0 /\ finals # {})
                   => urlCursor = <<EarlierRecords[lastFinal].sequence>>
            /\ (cursorOverride < 0 /\ finals = {} /\ EarlierRecords # <<>>)
                   => urlCursor = <<EarlierRecords[Len(EarlierRecords)].sequence>>
            /\ (cursorOverride < 0 /\ EarlierRecords = <<>>) => urlCursor = Nil

\* C8 witness: started without override on a cursor topic whose final record
\* is followed by a later periodic record: the URL carries the final one.
C8_Witness ==
    /\ cvPc = "serving"
    /\ cursorOverride < 0
    /\ Len(EarlierRecords) >= 2
    /\ EarlierRecords[1].savedOnExit
    /\ ~EarlierRecords[Len(EarlierRecords)].savedOnExit
    /\ urlCursor = <<EarlierRecords[1].sequence>>
    /\ urlCursor # <<EarlierRecords[Len(EarlierRecords)].sequence>>

\* C21 (as stated): when Run has returned, the process exits non-zero if
\* HandleRepoStream had ended with an error other than a cancellation (the
\* stream failed while the converter was serving), and exits with code 0
\* after a shutdown started by a signal.
C21_ExitCodeReflectsStreamError ==
    cvPc = "returned" =>
        /\ (streamErr = ConnectionFailed /\ streamPc = "closed") => ExitCode(runErr) # 0
        /\ streamErr # ConnectionFailed => ExitCode(runErr) = 0

\* The final cursor records this run has persisted.
FinalRecords == SelectSeq(cursorLog, LAMBDA r : r.savedOnExit /\ r.run = ThisRun)

\* C27 (as stated): the producer is closed only after the subscriber was told
\* to stop, and the final cursor is saved only after the producer was closed;
\* the sequence of the final cursor is one the cursor had reached when the
\* producer was closed, so it does not exceed the sequence of a frame handed
\* to the producer before the flush.
C27_FinalCursorNotPastFlush ==
    /\ producerClosed => cvPc \in {"awaitSave", "returned"}
    /\ cvPc # "crashed" => \A k \in 1..Len(FinalRecords) :
          /\ producerClosed
          /\ flushCursor # Nil
          /\ flushCursor[1] # Nil
          /\ FinalRecords[k].sequence <= flushCursor[1][1]

\* Ops of a commit frame whose CAR was read, by sequence number.
OpsOf ==
    [seq \in 1..MaxSeq |->
        IF Frame(seq).kind = "commit" /\ ~Frame(seq).tooBig /\ Frame(seq).carOk
        THEN { <<seq, i>> : i \in 1..Len(Frame(seq).ops) } ELSE {}]

\* Those whose record cannot be decoded: the declared address differs from
\* the record's, the block is missing, or CBOR / JSON conversion fails.
DecodeFailedOpsOf ==
    [seq \in 1..MaxSeq |->
        { so \in OpsOf[seq] :
            LET op == Frame(so[1]).ops[so[2]]
            IN  /\ op.action \in {"create", "update"}
                /\ op.cid # Nil
                /\ (op.block = Nil \/ op.block # op.cid \/ ~op.cbor) }]

\* Those for which an event is to be produced.
GoodOpsOf ==
    [seq \in 1..MaxSeq |-> { so \in OpsOf[seq] : OpAccepted(Frame(so[1]).ops[so[2]]) }]

\* The same, of the frames handled in this run.
HandledOps == UNION { OpsOf[seq] : seq \in handled }
DecodeFailedOps == UNION { DecodeFailedOpsOf[seq] : seq \in handled }
GoodOps == UNION { GoodOpsOf[seq] : seq \in handled }

\* Messages this run put on the bus for commit ops.
ThisRunCommits == { k \in ThisRunBus : bus[k].kind = "COMMIT" }

\* C30: a record-level decode failure of one op of a commit is counted and
\* skips only that op: the op is not on the bus and is counted with status
\* error; every other op of the handled commits, those after the failed op
\* and those of later frames included, is received with status ok and handed
\* to the producer, and is on the bus when the producer took it.
C30_DecodeFailureSkipsOnlyThatOp ==
    cvPc # "crashed" =>
        LET good == GoodOps
            commits == ThisRunCommits
            onBus == { bus[k].src : k \in commits }
            producedOk == Count(eventsProduced, <<"commit", "ok">>)
        IN  /\ DecodeFailedOps \cap onBus = {}
            /\ Count(eventsReceived, <<"commit", "error">>)
                  = Cardinality(HandledOps \ good)
            /\ Count(eventsReceived, <<"commit", "ok">>) = Cardinality(good)
            /\ producedOk + Count(eventsProduced, <<"commit", "error">>)
                  = Cardinality(good)
            /\ Cardinality(commits) = producedOk
            /\ onBus \subseteq good
            /\ (produceErrs = 0 /\ ~producerClosed) => good \subseteq onBus

\* C30 witness: the commit of frame 2 has been handled: its first three ops
\* failed (address mismatch, missing block, CBOR failure) and were counted,
\* its fourth op is on the bus, and so is an op of the later frame 3.
C30_Witness ==
    /\ cvPc # "crashed"
    /\ {<<2, 1>>, <<2, 2>>, <<2, 3>>} \subseteq DecodeFailedOps
    /\ Count(eventsReceived, <<"commit", "error">>) >= 3
    /\ \E j, k \in ThisRunCommits :
           /\ j < k
           /\ bus[j].src = <<2, 4>>
           /\ bus[k].src = <<3, 1>>

(***************************************************************************)
(* ENRICHER  (src/unnamed/part_007: enricher.go)                           *)
(***************************************************************************)
\* Bound: image blobs referenced by a record.
MaxImages == 1

ImageCids == { "img" \o ToString(k) : k \in 1..MaxImages }

\* Which optional clients Enricher.New has configured.
EnricherConfigs == {
    [ozone |-> TRUE, appview |-> TRUE, did |-> TRUE,
     prescreen |-> TRUE, hive |-> TRUE, abyss |-> TRUE, retina |-> TRUE],
    [ozone |-> FALSE, appview |-> FALSE, did |-> FALSE,
     prescreen |-> FALSE, hive |-> TRUE, abyss |-> FALSE, retina |-> TRUE] }

\* A FirehoseEvent on the input topic.  jsonOk: whether data.UnmarshalJSON of
\* the record succeeds; images: the image blobs data.ExtractBlobs finds.
InEvent(did, hasCommit, operation, collection, jsonOk, imageBlobs) ==
    [did |-> did, hasCommit |-> hasCommit, operation |-> operation,
     collection |-> collection, rkey |-> "1", cid |-> "c1",
     record |-> IF operation = "DELETE" THEN "" ELSE "{rec}",
     jsonOk |-> jsonOk, images |-> imageBlobs]

EnEvents == {
    InEvent("did:plc:abc", TRUE, "CREATE", "app.bsky.feed.post", TRUE, ImageCids),
    InEvent("did:web:example.com", TRUE, "UPDATE", "app.bsky.actor.profile", TRUE, {}),
    InEvent("did:plc:abc", TRUE, "DELETE", "app.bsky.feed.post", TRUE, {}),
    InEvent("did:plc:abc", TRUE, "CREATE", "app.bsky.feed.post", FALSE, {}),
    InEvent("did:plc:abc", FALSE, "", "", TRUE, {}) }

IdentityTasks == {"ozone", "appview", "did", "did-audit"}
ImageTaskKinds == {"scan", "abyss", "retina"}

\* The goroutines of one handleEvent: <<kind, image cid>> ("" for none).
EnTasks ==
    { <<k, "">> : k \in IdentityTasks \cup {"download"} }
        \cup (ImageTaskKinds \X ImageCids)

\* Identity tasks handleEvent starts for the event (wg.Go).
StartedIdentity(cfg, ev) ==
    { <<k, "">> : k \in
        { k \in IdentityTasks :
            \/ k = "ozone" /\ cfg.ozone
            \/ k = "appview" /\ cfg.appview
            \/ k = "did" /\ cfg.did
            \/ k = "did-audit" /\ cfg.did /\ HasPrefix(ev.did, "did:plc:") } }

\* Image tasks the images.Range callback starts for a downloaded image.
StartedForImage(cfg, cid) ==
    { <<"scan", cid>> }
        \cup (IF cfg.abyss THEN { <<"abyss", cid>> } ELSE {})
        \cup (IF cfg.retina THEN { <<"retina", cid>> } ELSE {})

\* asProtoErr
asProtoErr(err) == IF err = Nil THEN Nil ELSE <<err[1]>>

NoResults == <<>>

Store(map, cid, value) ==
    IF cid \in DOMAIN map THEN [map EXCEPT ![cid] = value] ELSE map @@ (cid :> value)

\* xsync MapOf.Load: the value, or nil when absent
LoadOf(map, cid) == IF cid \in DOMAIN map THEN <<map[cid]>> ELSE Nil

\* evtToModerationResults: the per-image results are not among its
\* parameters, so the ImageResults field keeps its zero value.
evtToModerationResults(ev, ozoneRepoViewDetail, profileView, didDoc, didAuditLog) ==
    [did |-> ev.did, collection |-> ev.collection, rkey |-> ev.rkey, cid |-> ev.cid,
     operation |-> ev.operation, record |-> ev.record,
     ozoneRepoViewDetail |-> ozoneRepoViewDetail, profileView |-> profileView,
     didDoc |-> didDoc, didAuditLog |-> didAuditLog,
     imageResults |-> NoResults]

\* modResultsToOspreyEvent: action name and the marshalled event
modResultsToOspreyEvent(modEvt) ==
    [actionName |-> modEvt.collection \o
                    (CASE modEvt.operation = "CREATE" -> "#create"
                       [] modEvt.operation = "UPDATE" -> "#update"
                       [] modEvt.operation = "DELETE" -> "#delete"
                       [] OTHER -> ""),
     encoding |-> "UTF8",
     data |-> modEvt]

\* wg.Wait() returns
WaitDoneAlways(counter) == TRUE

WaitDone(counter) == counter = 0

EnInit ==
    /\ enPc = "idle"
    /\ \E cfg \in EnricherConfigs : enConfig = cfg
    /\ \E ev \in EnEvents : enEvent = ev
    /\ enTask = [t \in EnTasks |-> "none"]
    /\ wg = 0
    /\ dispatchExpired = FALSE
    /\ blobs = [k \in IdentityTasks |-> Nil]
    /\ images = {}
    /\ prescreenResults = NoResults
    /\ hiveResults = NoResults
    /\ abyssResults = NoResults
    /\ retinaResults = NoResults
    /\ imageResults = NoResults
    /\ produced = <<>>
    /\ enReturn = "none"

\* What a handleEvent that enriches the commits of every operation would do.
ShortCircuitsNonCommitOnly(ev) == ~ev.hasCommit

\* The two early returns of handleEvent: no commit, or a commit whose
\* operation is neither CREATE nor UPDATE.
ShortCircuits(ev) == ~ev.hasCommit \/ ev.operation \notin {"CREATE", "UPDATE"}

\* handleEvent from its entry to the first wg.Wait(): the early returns, the
\* identity tasks, the decoding of the record, the download task.
HandleEvent ==
    /\ enPc = "idle"
    /\ IF ShortCircuits(enEvent)
       THEN /\ enPc' = "returned"
            /\ enReturn' = "nil"
            /\ UNCHANGED <<enTask, wg>>
       ELSE LET ident == StartedIdentity(enConfig, enEvent)
            IN  IF ~enEvent.jsonOk
                THEN /\ enPc' = "returned"
                     /\ enReturn' = "error"
                     /\ enTask' = [t \in EnTasks |-> IF t \in ident THEN "running" ELSE "none"]
                     /\ wg' = Cardinality(ident)
                ELSE /\ enPc' = "wait1"
                     /\ enReturn' = "none"
                     /\ enTask' = [t \in EnTasks |->
                                     IF t \in ident \cup { <<"download", "">> }
                                     THEN "running" ELSE "none"]
                     /\ wg' = Cardinality(ident) + 1
    /\ UNCHANGED <<enConfig, enEvent, dispatchExpired, blobs, images, prescreenResults,
                   hiveResults, abyssResults, retinaResults, imageResults, produced>>
    /\ UNCHANGED notEnVars

\* One of the identity goroutines: on success it stores the response body.
IdentityTask(k, ok) ==
    /\ enTask[<<k, "">>] = "running"
    /\ enTask' = [enTask EXCEPT ![<<k, "">>] = "done"]
    /\ wg' = wg - 1
    /\ blobs' = IF ok THEN [blobs EXCEPT ![k] = <<k>>] ELSE blobs
    /\ UNCHANGED <<enPc, enConfig, enEvent, dispatchExpired, images, prescreenResults,
                   hiveResults, abyssResults, retinaResults, imageResults, produced,
                   enReturn>>
    /\ UNCHANGED notEnVars

\* The download goroutine: GetImageBytes for each image, one after the other;
\* the images in got are fetched and stored.  The client's own steps are
\* those of the image CDN client below; here each call returns.
DownloadTask(got) ==
    /\ enTask[<<"download", "">>] = "running"
    /\ got \subseteq enEvent.images
    /\ images' = got
    /\ enTask' = [enTask EXCEPT ![<<"download", "">>] = "done"]
    /\ wg' = wg - 1
    /\ UNCHANGED <<enPc, enConfig, enEvent, dispatchExpired, blobs, prescreenResults,
                   hiveResults, abyssResults, retinaResults, imageResults, produced,
                   enReturn>>
    /\ UNCHANGED notEnVars

\* First wg.Wait() returns; images.Range starts the image goroutines.
Dispatch ==
    /\ enPc = "wait1"
    /\ WaitDone(wg)
    /\ LET started == UNION { StartedForImage(enConfig, cid) : cid \in images }
       IN  /\ enTask' = [t \in EnTasks |-> IF t \in started THEN "running" ELSE enTask[t]]
           /\ wg' = wg + Cardinality(started)
    /\ enPc' = "wait2"
    /\ UNCHANGED <<enConfig, enEvent, dispatchExpired, blobs, images, prescreenResults,
                   hiveResults, abyssResults, retinaResults, imageResults, produced,
                   enReturn>>
    /\ UNCHANGED notEnVars

\* The 30 s of dispatchCtx run out: calls made with it fail from now on.
\* The identity tasks and the download are called with ctx, not dispatchCtx.
DispatchBudgetElapses ==
    /\ enPc \in {"wait1", "wait2"}
    /\ ~dispatchExpired
    /\ dispatchExpired' = TRUE
    /\ UNCHANGED <<enPc, enConfig, enEvent, enTask, wg, blobs, images, prescreenResults,
                   hiveResults, abyssResults, retinaResults, imageResults, produced,
                   enReturn>>
    /\ UNCHANGED notEnVars

\* The error of a call made with dispatchCtx: nil when it succeeds.
CallError(ok) ==
    IF dispatchExpired THEN <<"context deadline exceeded">>
    ELSE IF ok THEN Nil ELSE <<"timeout">>

\* The error of a prescreen or hive Scan: c.Limiter.Wait(ctx) fails when the
\* budget has run out by then; the request itself is built without the
\* context, so one already sent when the budget runs out is not cancelled.
LimitedCallError(ok, sent) ==
    IF dispatchExpired /\ ~sent THEN <<"context deadline exceeded">>
    ELSE IF ok THEN Nil ELSE <<"timeout">>

\* The prescreen-then-hive goroutine of an image.
ScanTask(cid, preOk, preSent, decision, hiveOk, hiveSent) ==
    /\ enTask[<<"scan", cid>>] = "running"
    /\ ~dispatchExpired => (preSent /\ hiveSent)
    /\ LET preErr == LimitedCallError(preOk, preSent)
           hiveErr == LimitedCallError(hiveOk, hiveSent)
           toHive == enConfig.hive /\
                     (~enConfig.prescreen \/ (preErr = Nil /\ decision # "sfw"))
       IN  /\ ~enConfig.prescreen => (preOk /\ decision = "nsfw")
           /\ ~toHive => hiveOk
           /\ preErr # Nil => decision = "nsfw"
           /\ prescreenResults' =
                 IF ~enConfig.prescreen THEN prescreenResults
                 ELSE IF preErr # Nil
                      THEN Store(prescreenResults, cid,
                                 [error |-> asProtoErr(preErr), decision |-> Nil])
                      ELSE Store(prescreenResults, cid,
                                 [error |-> Nil, decision |-> <<decision>>])
           /\ hiveResults' =
                 IF ~toHive THEN hiveResults
                 ELSE IF hiveErr # Nil
                      THEN Store(hiveResults, cid,
                                 [error |-> asProtoErr(hiveErr), classes |-> <<>>])
                      ELSE Store(hiveResults, cid,
                                 [error |-> Nil, classes |-> <<"porn", "nudity">>])
    /\ enTask' = [enTask EXCEPT ![<<"scan", cid>>] = "done"]
    /\ wg' = wg - 1
    /\ UNCHANGED <<enPc, enConfig, enEvent, dispatchExpired, blobs, images, abyssResults,
                   retinaResults, imageResults, produced, enReturn>>
    /\ UNCHANGED notEnVars

\* The abyss goroutine of an image.
AbyssTask(cid, ok) ==
    /\ enTask[<<"abyss", cid>>] = "running"
    /\ abyssResults' =
          IF CallError(ok) # Nil
          THEN Store(abyssResults, cid,
                     [error |-> asProtoErr(CallError(ok)), isAbuseMatch |-> Nil])
          ELSE Store(abyssResults, cid, [error |-> Nil, isAbuseMatch |-> <<FALSE>>])
    /\ enTask' = [enTask EXCEPT ![<<"abyss", cid>>] = "done"]
    /\ wg' = wg - 1
    /\ UNCHANGED <<enPc, enConfig, enEvent, dispatchExpired, blobs, images,
                   prescreenResults, hiveResults, retinaResults, imageResults, produced,
                   enReturn>>
    /\ UNCHANGED notEnVars

\* The retina (OCR) goroutine of an image.
RetinaTask(cid, ok) ==
    /\ enTask[<<"retina", cid>>] = "running"
    /\ retinaResults' =
          IF CallError(ok) # Nil
          THEN Store(retinaResults, cid,
                     [error |-> asProtoErr(CallError(ok)), text |-> Nil])
          ELSE Store(retinaResults, cid, [error |-> Nil, text |-> <<"ocr text">>])
    /\ enTask' = [enTask EXCEPT ![<<"retina", cid>>] = "done"]
    /\ wg' = wg - 1
    /\ UNCHANGED <<enPc, enConfig, enEvent, dispatchExpired, blobs, images,
                   prescreenResults, hiveResults, abyssResults, imageResults, produced,
                   enReturn>>
    /\ UNCHANGED notEnVars

\* Second wg.Wait() returns; imageResults is assembled, the enriched event
\* is built and handed to ProduceAsync.
Produce(ok) ==
    /\ enPc = "wait2"
    /\ WaitDone(wg)
    /\ imageResults' = [cid \in images |->
                          [cid |-> cid,
                           hive |-> LoadOf(hiveResults, cid),
                           abyss |-> LoadOf(abyssResults, cid),
                           retina |-> LoadOf(retinaResults, cid),
                           prescreen |-> LoadOf(prescreenResults, cid)]]
    /\ LET modEvt == evtToModerationResults(enEvent, blobs["ozone"], blobs["appview"],
                                            blobs["did"], blobs["did-audit"])
       IN  produced' = IF ok THEN Append(produced, modResultsToOspreyEvent(modEvt))
                       ELSE produced
    /\ enReturn' = IF ok THEN "nil" ELSE "error"
    /\ enPc' = "returned"
    /\ UNCHANGED <<enConfig, enEvent, enTask, wg, dispatchExpired, blobs, images,
                   prescreenResults, hiveResults, abyssResults, retinaResults>>
    /\ UNCHANGED notEnVars

EnNext ==
    \/ HandleEvent
    \/ \E k \in IdentityTasks, ok \in BOOLEAN : IdentityTask(k, ok)
    \/ \E got \in SUBSET ImageCids : DownloadTask(got)
    \/ Dispatch
    \/ DispatchBudgetElapses
    \/ \E cid \in ImageCids, preOk, preSent \in BOOLEAN, decision \in {"sfw", "nsfw"},
          hiveOk, hiveSent \in BOOLEAN :
            ScanTask(cid, preOk, preSent, decision, hiveOk, hiveSent)
    \/ \E cid \in ImageCids, ok \in BOOLEAN : AbyssTask(cid, ok)
    \/ \E cid \in ImageCids, ok \in BOOLEAN : RetinaTask(cid, ok)
    \/ \E ok \in BOOLEAN : Produce(ok)

(***************************************************************************)
(* Enricher claims                                                         *)
(***************************************************************************)
\* Goroutines handleEvent has started for the event so far.
StartedTasks == { t \in EnTasks : enTask[t] # "none" }

\* Goroutines handleEvent starts for the event before it produces.
TasksBeforeProduce ==
    StartedIdentity(enConfig, enEvent) \cup { <<"download", "">> }
        \cup UNION { StartedForImage(enConfig, cid) : cid \in images }

\* C9: the enriched event of a CREATE/UPDATE commit is produced at most once,
\* and only when every task started for the event (moderation-repo view,
\* profile, identity document, audit log, image download, per-image
\* enrichers) has completed; a task bound by the 30 s dispatch budget
\* completes with an error once the budget has elapsed.
C9_ProducedOnceAfterAllTasks ==
    /\ Len(produced) <= 1
    /\ produced # <<>> =>
           /\ enEvent.hasCommit /\ enEvent.operation \in {"CREATE", "UPDATE"}
           /\ StartedTasks = TasksBeforeProduce
           /\ \A t \in StartedTasks : enTask[t] = "done"
           /\ wg = 0

\* C9 witness: an event with an image went through all identity tasks, the
\* download and the three per-image tasks, one of which ran into the elapsed
\* budget, and was produced.
C9_Witness ==
    /\ Len(produced) = 1
    /\ images # {}
    /\ StartedTasks = EnTasks
    /\ dispatchExpired
    /\ \E cid \in images : /\ cid \in DOMAIN retinaResults
                           /\ retinaResults[cid].error = <<"context deadline exceeded">>
                           /\ cid \in DOMAIN hiveResults
                           /\ hiveResults[cid].error = Nil

\* C10 (as stated): when the event is emitted and, for an image, one enricher
\* failed (OCR) while another succeeded (classifier), the emitted event holds
\* for that image the error string of the failed enricher and the parsed
\* fields (classes) of the successful one.
C10_PartialResultsInEmittedEvent ==
    \A cid \in images :
        ( /\ produced # <<>>
          /\ cid \in DOMAIN retinaResults /\ retinaResults[cid].error # Nil
          /\ cid \in DOMAIN hiveResults /\ hiveResults[cid].error = Nil )
            => LET out == produced[1].data.imageResults
               IN  /\ cid \in DOMAIN out
                   /\ out[cid].retina # Nil
                   /\ out[cid].retina[1].error # Nil
                   /\ out[cid].hive # Nil
                   /\ out[cid].hive[1].classes # <<>>

\* The heavy classifier (hive) was invoked for the image: every invocation
\* stores a result for the image, an error or the classes.
HiveInvoked(cid) == cid \in DOMAIN hiveResults

\* The prescreen of the image returned the decision sfw.
PrescreenSfw(cid) ==
    /\ enConfig.prescreen
    /\ cid \in DOMAIN prescreenResults
    /\ prescreenResults[cid].decision = <<"sfw">>

\* C11 (as stated): for every image whose prescreen-then-classifier task has
\* finished, the heavy classifier was not invoked if a configured prescreen
\* returned sfw, and in every other case (prescreen not configured, or any
\* other outcome of the prescreen call, a failed call included) the
\* configured heavy classifier was invoked.
C11_HeavyClassifierUnlessSfw ==
    \A cid \in images :
        enTask[<<"scan", cid>>] = "done" =>
            IF PrescreenSfw(cid)
            THEN ~HiveInvoked(cid)
            ELSE enConfig.hive => HiveInvoked(cid)

\* C29: once the 30 s dispatch budget of an event has elapsed, every
\* enrichment task of the event still in flight is cancelled: a task that
\* ends after that ends with an error and contributes no result (no identity
\* response, no downloaded image, no per-image result without an error).
C29_BudgetCancelsInFlightTasks ==
    [][dispatchExpired =>
          /\ blobs' = blobs
          /\ images' = images
          /\ \A cid \in ImageCids :
                /\ (cid \in DOMAIN prescreenResults' /\ cid \notin DOMAIN prescreenResults)
                      => prescreenResults'[cid].error # Nil
                /\ (cid \in DOMAIN hiveResults' /\ cid \notin DOMAIN hiveResults)
                      => hiveResults'[cid].error # Nil
                /\ (cid \in DOMAIN abyssResults' /\ cid \notin DOMAIN abyssResults)
                      => abyssResults'[cid].error # Nil
                /\ (cid \in DOMAIN retinaResults' /\ cid \notin DOMAIN retinaResults)
                      => retinaResults'[cid].error # Nil]_vars

\* C32: for a DELETE commit and for an event without a commit the enricher
\* starts no enrichment task, calls no enrichment client (no identity
\* response, no downloaded image, no per-image result) and produces no
\* output event; handleEvent returns nil.
C32_DeleteAndNonCommitShortCircuit ==
    (~enEvent.hasCommit \/ enEvent.operation = "DELETE") =>
        /\ StartedTasks = {}
        /\ wg = 0
        /\ \A k \in IdentityTasks : blobs[k] = Nil
        /\ images = {}
        /\ prescreenResults = NoResults /\ hiveResults = NoResults
        /\ abyssResults = NoResults /\ retinaResults = NoResults
        /\ produced = <<>>
        /\ enPc \in {"idle", "returned"}
        /\ enPc = "returned" => enReturn = "nil"

\* C32 witness: handleEvent has returned for a DELETE commit, with every
\* enrichment client configured.
C32_Witness ==
    /\ enEvent.hasCommit /\ enEvent.operation = "DELETE"
    /\ enConfig.ozone /\ enConfig.prescreen
    /\ enPc = "returned"

(***************************************************************************)
(* MODERATION CLIENT  (src/effector/ozone.go)                              *)
(***************************************************************************)
\* Bounds: goroutines calling a client operation at the same time (one per
\* verdict handler); session responses the server issues on refresh.
MaxCallers == 2
MaxSessions == 1

Callers == 1..MaxCallers

\* NeedsReviewMaxTime = int64(7 * 24)
NeedsReviewMaxTime == 7 * 24

\* The authority CommentRecord compares the record's authority with.
DebugAuthority == "did:plc:oisofpd7lj26yvgiivf3lxsi"

RecordOps == {"TakedownRecord", "LabelRecord", "TagRecord", "CommentRecord",
              "ReportRecord", "EscalateRecord", "AcknowledgeRecord"}

\* One invocation of a client operation (the inputs explored: each kind of
\* operation, on an actor or a record; a string that is no at:// URI passed
\* as uri; a record of the debug authority): the method, its subject (did for
\* the Actor methods, uri for the Record methods) and the arguments that
\* decide what is sent: label, durationInHours (*int64), neg / reverse,
\* priorityScore (*int64).
Req(op, subject, label, durationInHours, neg, priorityScore) ==
    [op |-> op, subject |-> subject, label |-> label,
     durationInHours |-> durationInHours, neg |-> neg,
     priorityScore |-> priorityScore]

OzoneRequests == <<
    Req("LabelActor", ActorDid, "needs-review", <<9999>>, FALSE, Nil),
    Req("LabelRecord", RecordUri, "needs-review", Nil, FALSE, Nil),
    Req("LabelRecord", RecordUri, "spam", <<9999>>, TRUE, Nil),
    Req("TakedownActor", ActorDid, "", Nil, FALSE, Nil),
    Req("TagRecord", ActorDid, "", Nil, FALSE, Nil),
    Req("CommentRecord", RecordUri, "", Nil, FALSE, Nil),
    Req("CommentRecord", "at://" \o DebugAuthority \o "/app.bsky.feed.post/1",
        "", Nil, FALSE, Nil),
    Req("ReportRecord", RecordUri, "", Nil, FALSE, <<5>>),
    Req("EscalateActor", ActorDid, "", Nil, FALSE, Nil),
    Req("AcknowledgeRecord", RecordUri, "", Nil, FALSE, Nil)
>>

\* What a LabelActor / LabelRecord that passes the duration on unchanged
\* would do.
ClampDurationNever(label, durationInHours) == durationInHours

\* LabelActor / LabelRecord: the DurationInHours of the label event.
ClampDuration(label, durationInHours) ==
    IF label = "needs-review"
       /\ (durationInHours = Nil \/ durationInHours[1] > NeedsReviewMaxTime)
    THEN <<NeedsReviewMaxTime>>
    ELSE durationInHours

\* The condition under which an operation goes on to GetClient and the
\* moderation API.
IssuesCalls(r, production) ==
    IF r.op = "CommentRecord"
    THEN production \/ ParseATURI(r.subject) = <<DebugAuthority>>
    ELSE production

\* The first label of the operation's effects_processed increment.
CounterName(op) ==
    CASE op = "TakedownActor" -> "takedown-actor"
      [] op = "TakedownRecord" -> "takedown-record"
      [] op = "LabelActor" -> "label-actor"
      [] op = "LabelRecord" -> "label-record"
      [] op = "TagActor" -> "tag-actor"
      [] op = "TagRecord" -> "tag-record"
      [] op = "CommentActor" -> "comment-actor"
      [] op = "CommentRecord" -> "comment-record"
      [] op = "ReportActor" -> "report-actor"
      [] op = "ReportRecord" -> "report-record"
      [] op = "EscalateActor" -> "escalate-actor"
      [] op = "EscalateRecord" -> "escalate-"
      [] op = "AcknowledgeActor" -> "acknowledge-actor"
      [] op = "AcknowledgeRecord" -> "acknowledge-record"

\* The ModerationEmitEvent requests of an operation, in order.
EmitEvents(r) ==
    CASE r.op \in {"TakedownActor", "TakedownRecord"} ->
            << [event |-> IF r.neg THEN "reverseTakedown" ELSE "takedown",
                subject |-> r.subject, label |-> "", durationInHours |-> Nil] >>
      [] r.op \in {"LabelActor", "LabelRecord"} ->
            << [event |-> "label", subject |-> r.subject, label |-> r.label,
                durationInHours |-> ClampDuration(r.label, r.durationInHours)] >>
      [] r.op \in {"TagActor", "TagRecord"} ->
            << [event |-> "tag", subject |-> r.subject, label |-> "",
                durationInHours |-> Nil] >>
      [] r.op \in {"CommentActor", "CommentRecord"} ->
            << [event |-> "comment", subject |-> r.subject, label |-> "",
                durationInHours |-> Nil] >>
      [] r.op \in {"ReportActor", "ReportRecord"} ->
            << [event |-> "report", subject |-> r.subject, label |-> "",
                durationInHours |-> Nil] >>
            \o (IF r.priorityScore # Nil
                THEN << [event |-> "priorityScore", subject |-> r.subject,
                         label |-> "", durationInHours |-> Nil] >>
                ELSE <<>>)
      [] r.op \in {"EscalateActor", "EscalateRecord"} ->
            << [event |-> "escalate", subject |-> r.subject, label |-> "",
                durationInHours |-> Nil] >>
      [] r.op \in {"AcknowledgeActor", "AcknowledgeRecord"} ->
            << [event |-> "acknowledge", subject |-> r.subject, label |-> "",
                durationInHours |-> Nil] >>

\* The credentials of one session response (createSession or
\* refreshSession number n), as NewOzoneClient / GetClient put them into a
\* new xrpc.Client.
SessionPair(access, refresh) == [access |-> access, refresh |-> refresh]

\* time.Until(expiration) > 5*time.Minute is false for the client's access
\* credential.
ExpiresSoon(client, expiring) == client.access \in expiring

\* What a refreshMu that never blocks would do.
UnlockedAlways(mu) == TRUE

\* oc.refreshMu.Lock() returns
Unlocked(mu) == mu = 0

CurReq(c) == OzoneRequests[ocReq[c]]

OcInit ==
    /\ ocProduction \in BOOLEAN
    /\ ocSlot = SessionPair(0, 0)
    /\ ocSessions = 0
    /\ ocExpiring \in {{}, {0}}
    /\ ocMu = 0
    /\ ocPc = [c \in Callers |-> "idle"]
    /\ ocReq = [c \in Callers |-> 0]
    /\ ocLocal = [c \in Callers |-> Nil]
    /\ ocRefreshes = <<>>
    /\ ocApi = [c \in Callers |-> <<>>]
    /\ ocRet = [c \in Callers |-> "none"]
    /\ ocFaults = 0
    /\ effectsProcessed = <<>>

\* The operation returns: the deferred effects_processed increment runs and
\* the client the caller held is dropped.
OcReturn(c, n, status) ==
    /\ ocPc' = [ocPc EXCEPT ![c] = "done"]
    /\ ocLocal' = [ocLocal EXCEPT ![c] = Nil]
    /\ ocRet' = [ocRet EXCEPT ![c] = IF status = "ok" THEN "nil" ELSE "error"]
    /\ effectsProcessed' =
          Inc(effectsProcessed, <<CounterName(OzoneRequests[n].op), status>>)

\* A failing exchange or request uses up the fault budget.
OcFault(failed) ==
    /\ failed => ocFaults < MaxFaults
    /\ ocFaults' = IF failed THEN ocFaults + 1 ELSE ocFaults

\* A goroutine calls a client operation.  The Record methods parse the uri
\* first; outside production (and outside the debug authority of
\* CommentRecord) the operation returns at once; otherwise it calls
\* GetClient, whose first load and expiry check are part of this step.
Invoke(c, n) ==
    /\ ocPc[c] = "idle"
    /\ \A b \in Callers : b < c => ocPc[b] # "idle"
    /\ ocReq' = [ocReq EXCEPT ![c] = n]
    /\ LET r == OzoneRequests[n]
       IN  IF r.op \in RecordOps /\ ParseATURI(r.subject) = Nil
           THEN OcReturn(c, n, "error")
           ELSE IF ~IssuesCalls(r, ocProduction)
           THEN OcReturn(c, n, "ok")
           ELSE IF ExpiresSoon(ocSlot, ocExpiring)
           THEN /\ ocPc' = [ocPc EXCEPT ![c] = "lock"]
                /\ UNCHANGED <<ocLocal, ocRet, effectsProcessed>>
           ELSE /\ ocPc' = [ocPc EXCEPT ![c] = "emit"]
                /\ ocLocal' = [ocLocal EXCEPT ![c] = <<ocSlot>>]
                /\ UNCHANGED <<ocRet, effectsProcessed>>
    /\ UNCHANGED <<ocProduction, ocSlot, ocSessions, ocExpiring, ocMu, ocRefreshes,
                   ocApi, ocFaults>>
    /\ UNCHANGED notOcVars

\* GetClient: oc.refreshMu.Lock(), the second load and expiry check.  With a
\* credential that no longer expires soon the caller returns it (the
\* deferred Unlock runs); otherwise it sends the refresh exchange, holding
\* the mutex.
LockRefreshMu(c) ==
    /\ ocPc[c] = "lock"
    /\ Unlocked(ocMu)
    /\ ocLocal' = [ocLocal EXCEPT ![c] = <<ocSlot>>]
    /\ IF ExpiresSoon(ocSlot, ocExpiring)
       THEN /\ ocMu' = c
            /\ ocPc' = [ocPc EXCEPT ![c] = "exchange"]
       ELSE /\ ocMu' = 0
            /\ ocPc' = [ocPc EXCEPT ![c] = "emit"]
    /\ UNCHANGED <<ocProduction, ocSlot, ocSessions, ocExpiring, ocReq, ocRefreshes,
                   ocApi, ocRet, ocFaults, effectsProcessed>>
    /\ UNCHANGED notOcVars

\* newClient of GetClient: both credentials come from the response res.
StoredClient(client, res) == SessionPair(res, res)

\* What a GetClient that stores a client after every exchange, failed or
\* not, would leave in the slot.
SlotAfterExchangeAlwaysStored(slot, client, ok, res) == StoredClient(client, res)

\* oc.client after the refresh exchange: oc.client.Store(newClient) runs on
\* success only; the error return comes before it.
SlotAfterExchange(slot, client, ok, res) ==
    IF ok THEN StoredClient(client, res) ELSE slot

\* GetClient: atproto.ServerRefreshSession returns.  On success the new
\* client is stored and returned; on failure the operation returns the
\* error.  The deferred Unlock runs in both cases.
RefreshSession(c, ok) ==
    /\ ocPc[c] = "exchange"
    /\ OcFault(~ok)
    /\ ok => ocSessions < MaxSessions
    /\ ocRefreshes' = Append(ocRefreshes,
                             [refresh |-> ocLocal[c][1].refresh, ok |-> ok,
                              waiting |-> { d \in Callers : ocPc[d] = "lock" }])
    /\ ocMu' = 0
    /\ ocSlot' = SlotAfterExchange(ocSlot, ocLocal[c][1], ok, ocSessions + 1)
    /\ IF ok
       THEN /\ ocSessions' = ocSessions + 1
            /\ ocLocal' = [ocLocal EXCEPT ![c] = <<StoredClient(ocLocal[c][1], ocSessions + 1)>>]
            /\ ocPc' = [ocPc EXCEPT ![c] = "emit"]
            /\ UNCHANGED <<ocRet, effectsProcessed>>
       ELSE /\ OcReturn(c, ocReq[c], "error")
            /\ UNCHANGED ocSessions
    /\ UNCHANGED <<ocProduction, ocExpiring, ocReq, ocApi>>
    /\ UNCHANGED notOcVars

\* The next ozone.ModerationEmitEvent of the operation, sent with the client
\* GetClient returned.  An error ends the operation; after the last request
\* (SendEmail does nothing) the operation returns nil.
EmitEvent(c, ok) ==
    /\ ocPc[c] = "emit"
    /\ OcFault(~ok)
    /\ LET evs == EmitEvents(CurReq(c))
           k == Len(ocApi[c]) + 1
       IN  /\ ocApi' = [ocApi EXCEPT ![c] =
                          Append(@, evs[k] @@ [auth |-> ocLocal[c][1].access, ok |-> ok])]
           /\ IF ~ok THEN OcReturn(c, ocReq[c], "error")
              ELSE IF k = Len(evs) THEN OcReturn(c, ocReq[c], "ok")
              ELSE UNCHANGED <<ocPc, ocLocal, ocRet, effectsProcessed>>
    /\ UNCHANGED <<ocProduction, ocSlot, ocSessions, ocExpiring, ocMu, ocReq, ocRefreshes>>
    /\ UNCHANGED notOcVars

\* Time passes: the access credential in the slot comes within 5 minutes of
\* its expiry.
AccessNearsExpiry ==
    /\ ocSlot.access \notin ocExpiring
    /\ ocSlot.access < MaxSessions
    /\ ocExpiring' = ocExpiring \cup {ocSlot.access}
    /\ UNCHANGED <<ocProduction, ocSlot, ocSessions, ocMu, ocPc, ocReq, ocLocal,
                   ocRefreshes, ocApi, ocRet, ocFaults, effectsProcessed>>
    /\ UNCHANGED notOcVars

OcNext ==
    \/ \E c \in Callers, n \in 1..Len(OzoneRequests) : Invoke(c, n)
    \/ \E c \in Callers : LockRefreshMu(c)
    \/ \E c \in Callers, ok \in BOOLEAN : RefreshSession(c, ok)
    \/ \E c \in Callers, ok \in BOOLEAN : EmitEvent(c, ok)
    \/ AccessNearsExpiry

(***************************************************************************)
(* Moderation client claims                                                *)
(***************************************************************************)
\* The emitEvent requests caller c has sent.
ApiCalls(c) == { ocApi[c][k] : k \in 1..Len(ocApi[c]) }

\* C12: every label request (actor or record) with label needs-review that
\* reaches the moderation API carries a durationInHours of at most 168,
\* whatever the caller asked for; a requested 9999 is sent as 168.
C12_NeedsReviewDurationCapped ==
    \A c \in Callers : \A a \in ApiCalls(c) :
        (a.event = "label" /\ a.label = "needs-review")
            => /\ a.durationInHours # Nil
               /\ a.durationInHours[1] <= 168
               /\ CurReq(c).durationInHours = <<9999>> => a.durationInHours = <<168>>

\* C12 witness: a needs-review label asked for with 9999 hours was sent to
\* the moderation API with 168 hours.
C12_Witness ==
    \E c \in Callers : \E a \in ApiCalls(c) :
        /\ a.event = "label" /\ a.label = "needs-review"
        /\ CurReq(c).durationInHours = <<9999>>
        /\ a.durationInHours = <<168>>
        /\ a.ok

\* C13 (as stated): outside production no client operation sends a request
\* to the moderation API, whatever the subject; every operation returns
\* success and is counted in effects_processed.
C13_NonProductionIssuesNoCall ==
    ~ocProduction =>
        \A c \in Callers :
            /\ ocApi[c] = <<>>
            /\ ocPc[c] = "done" =>
                 /\ ocRet[c] = "nil"
                 /\ Count(effectsProcessed, <<CounterName(CurReq(c).op), "ok">>) >= 1

\* The callers whose refresh exchange is in flight.
InFlight == { c \in Callers : ocPc[c] = "exchange" }

\* The refresh exchanges that succeeded.
Succeeded == { i \in 1..Len(ocRefreshes) : ocRefreshes[i].ok }

\* Both credentials of the client come from one session response.
Coherent(client) == client.access = client.refresh

LastExchangeFailed ==
    ocRefreshes # <<>> /\ ~ocRefreshes[Len(ocRefreshes)].ok

\* C38: when the refresh exchange of GetClient fails, the operation that
\* called it returns an error without having sent any request to the
\* moderation API, the slot keeps the old credential pair and the refresh
\* mutex is released; a GetClient that runs while the last exchange is a
\* failed one goes to the mutex and from there into a new exchange, which
\* presents the same refresh credential as the failed one.
C38_FailedRefreshLeavesSlotAndRetries ==
    [][\A c \in Callers :
          /\ (ocPc[c] = "exchange" /\ ocPc'[c] = "done") =>
                /\ ocRet'[c] = "error"
                /\ ocApi'[c] = <<>>
                /\ ocSlot' = ocSlot
                /\ ocMu' = 0
                /\ LastExchangeFailed'
          /\ (LastExchangeFailed /\ ocPc[c] = "idle" /\ ocPc'[c] \notin {"idle", "done"})
                => ocPc'[c] = "lock"
          /\ (LastExchangeFailed /\ ocPc[c] = "lock" /\ ocPc'[c] # "lock")
                => ocPc'[c] = "exchange"
          /\ (LastExchangeFailed /\ ocPc[c] = "exchange" /\ ocPc'[c] # "exchange")
                => ocRefreshes'[Len(ocRefreshes')].refresh
                      = ocRefreshes[Len(ocRefreshes)].refresh
      ]_vars

\* C38 witness: a caller's refresh exchange failed, it returned an error
\* having sent nothing, the mutex is free and the slot still holds the
\* first credential pair; a later caller made a second exchange with the
\* same refresh credential, which succeeded.
C38_Witness ==
    /\ Len(ocRefreshes) = 2
    /\ ~ocRefreshes[1].ok /\ ocRefreshes[2].ok
    /\ ocRefreshes[2].refresh = ocRefreshes[1].refresh
    /\ ocRet[1] = "error" /\ ocApi[1] = <<>>
    /\ ocMu = 0
    /\ ocRet[2] = "nil" /\ ocApi[2] # <<>>

\* The moderation events a call of the effector to the client asks for.
EventsOfCall(call) == EmitEvents(Req(call.op, call.subject, "", Nil, FALSE, Nil))

\* C24 (as stated): in production every call the acknowledgements loop makes
\* is to the acknowledge operation of the effect's subject kind
\* (AcknowledgeActor for an actor, AcknowledgeRecord for a record) and emits
\* an acknowledge event, never an escalate event.
C24_AcknowledgeEmitsAcknowledge ==
    \A h \in Handlers : \A k \in 1..Len(ozoneCalls[h]) :
        LET call == ozoneCalls[h][k]
        IN  (isProduction /\ call.list = "acknowledgement") =>
                /\ call.op = IF CurEffects(h)[call.idx].kind = "ACTOR"
                             THEN "AcknowledgeActor" ELSE "AcknowledgeRecord"
                /\ \A j \in 1..Len(EventsOfCall(call)) :
                       EventsOfCall(call)[j].event = "acknowledge"

(***************************************************************************)
(* BATCHED INSERTER  (src/pkg/bigquery_inserter/bigquery_inserter.go)      *)
(***************************************************************************)
\* Bounds: goroutines calling Insert / Close at the same time; rows inserted.
MaxInserters == 2
MaxRows == 3

Inserters == 1..MaxInserters

\* The configurations explored (Args.BatchSize, BaseArgs.MaxPendingSends);
\* every caller in the repository passes a batch size of at least 1.
InserterArgs == { [BatchSize |-> b, MaxPendingSends |-> m] : b \in {1, 2}, m \in {1, 2} }

BiInit ==
    /\ \E args \in InserterArgs : /\ batchSize = args.BatchSize
                                 /\ maxPendingSends = args.MaxPendingSends
    /\ queuedEvents = <<>>
    /\ pendingSends = 0
    /\ biPc = [p \in Inserters |-> "idle"]
    /\ biCall = [p \in Inserters |-> "none"]
    /\ toInsert = [p \in Inserters |-> <<>>]
    /\ biSeen = [p \in Inserters |-> 0]
    /\ inserted = 0
    /\ drained = {}
    /\ submitted = {}
    /\ dropped = {}
    /\ closes = <<>>
    /\ biFaults = 0

\* What an Insert that drains only a queue longer than batchSize would do.
InsertDrainsLate(len, size) == len > size

\* Insert: len(i.queuedEvents) >= i.batchSize
InsertDrains(len, size) == len >= size

\* What a Close that never drains would do.
CloseDrainsNever(len) == FALSE

\* Close: len(i.queuedEvents) > 0
CloseDrains(len) == len > 0

\* Insert up to the Unlock of insertMu: the row is appended and, when the
\* queue has reached batchSize, the whole queue is cloned into toInsert and
\* reset.  With a batch the goroutine goes on to sendStream, otherwise
\* Insert returns nil.
Insert(p) ==
    /\ biPc[p] = "idle"
    /\ inserted < MaxRows
    /\ inserted' = inserted + 1
    /\ LET queue == Append(queuedEvents, inserted + 1)
       IN  IF InsertDrains(Len(queue), batchSize)
           THEN /\ queuedEvents' = <<>>
                /\ toInsert' = [toInsert EXCEPT ![p] = queue]
                /\ drained' = drained \cup { [rows |-> queue, by |-> "Insert"] }
                /\ biPc' = [biPc EXCEPT ![p] = "sendStream"]
                /\ biCall' = [biCall EXCEPT ![p] = "Insert"]
           ELSE /\ queuedEvents' = queue
                /\ UNCHANGED <<toInsert, drained, biPc, biCall>>
    /\ biSeen' = [biSeen EXCEPT ![p] = pendingSends]
    /\ UNCHANGED <<batchSize, maxPendingSends, pendingSends, submitted, dropped, closes,
                   biFaults>>
    /\ UNCHANGED notBiVars

\* Close up to the Unlock of insertMu: a non-empty queue is cloned into
\* toInsert and reset.  With a batch the goroutine goes on to sendStream,
\* otherwise Close returns nil.
Close(p) ==
    /\ biPc[p] = "idle"
    /\ closes = <<>>
    /\ IF CloseDrains(Len(queuedEvents))
       THEN /\ queuedEvents' = <<>>
            /\ toInsert' = [toInsert EXCEPT ![p] = queuedEvents]
            /\ drained' = drained \cup { [rows |-> queuedEvents, by |-> "Close"] }
            /\ biPc' = [biPc EXCEPT ![p] = "sendStream"]
            /\ biCall' = [biCall EXCEPT ![p] = "Close"]
            /\ closes' = << [before |-> inserted, queue |-> queuedEvents,
                             returned |-> FALSE] >>
       ELSE /\ closes' = << [before |-> inserted, queue |-> queuedEvents,
                             returned |-> TRUE] >>
            /\ UNCHANGED <<queuedEvents, toInsert, drained, biPc, biCall>>
    /\ biSeen' = [biSeen EXCEPT ![p] = pendingSends]
    /\ UNCHANGED <<batchSize, maxPendingSends, pendingSends, inserted, submitted, dropped,
                   biFaults>>
    /\ UNCHANGED notBiVars

\* The call of goroutine p returns.
BiReturn(p) ==
    /\ biPc' = [biPc EXCEPT ![p] = "idle"]
    /\ biCall' = [biCall EXCEPT ![p] = "none"]
    /\ toInsert' = [toInsert EXCEPT ![p] = <<>>]
    /\ closes' = IF biCall[p] = "Close"
                 THEN << [closes[1] EXCEPT !.returned = TRUE] >>
                 ELSE closes

\* The values the read of i.pendingSends at the head of sendStream can
\* return.  The read is made without sendMu while other goroutines write
\* the field under it: it sees the latest value or the one the field had
\* when the goroutine last synchronized.
RacyRead(p) == { pendingSends, biSeen[p] }

\* sendStream, the saturation check: with pendingSends >= maxPendingSends
\* the batch is dropped with a warning and the call returns.
SendStreamCheck(p, seen) ==
    /\ biPc[p] = "sendStream"
    /\ seen \in RacyRead(p)
    /\ IF seen >= maxPendingSends
       THEN /\ dropped' = dropped \cup { toInsert[p] }
            /\ BiReturn(p)
       ELSE /\ biPc' = [biPc EXCEPT ![p] = "increment"]
            /\ UNCHANGED <<dropped, biCall, toInsert, closes>>
    /\ UNCHANGED <<batchSize, maxPendingSends, queuedEvents, pendingSends, biSeen, inserted,
                   drained, submitted, biFaults>>
    /\ UNCHANGED notBiVars

\* sendStream: sendMu.Lock(); pendingSends++; sendMu.Unlock()
SendStreamIncrement(p) ==
    /\ biPc[p] = "increment"
    /\ pendingSends' = pendingSends + 1
    /\ biSeen' = [biSeen EXCEPT ![p] = pendingSends + 1]
    /\ biPc' = [biPc EXCEPT ![p] = "put"]
    /\ UNCHANGED <<batchSize, maxPendingSends, queuedEvents, biCall, toInsert, inserted,
                   drained, submitted, dropped, closes, biFaults>>
    /\ UNCHANGED notBiVars

\* sendStream: inserter.Put returns; the deferred function decrements
\* pendingSends under sendMu and the call returns.
SendStreamPut(p, ok) ==
    /\ biPc[p] = "put"
    /\ ~ok => biFaults < MaxFaults
    /\ biFaults' = IF ok THEN biFaults ELSE biFaults + 1
    /\ submitted' = submitted \cup { [rows |-> toInsert[p], ok |-> ok] }
    /\ pendingSends' = pendingSends - 1
    /\ biSeen' = [biSeen EXCEPT ![p] = pendingSends - 1]
    /\ BiReturn(p)
    /\ UNCHANGED <<batchSize, maxPendingSends, queuedEvents, inserted, drained, dropped>>
    /\ UNCHANGED notBiVars

BiNext ==
    \/ \E p \in Inserters : Insert(p)
    \/ \E p \in Inserters : Close(p)
    \/ \E p \in Inserters, seen \in 0..MaxInserters : SendStreamCheck(p, seen)
    \/ \E p \in Inserters : SendStreamIncrement(p)
    \/ \E p \in Inserters, ok \in BOOLEAN : SendStreamPut(p, ok)

(***************************************************************************)
(* Batched inserter claims                                                 *)
(***************************************************************************)
\* C18 (as stated): the number of batch submissions in flight never exceeds
\* maxPendingSends, whatever the interleaving of the Insert and Close calls.
C18_PendingSendsBounded == pendingSends <= maxPendingSends

\* The rows held by a sequence.
RowsOf(rows) == { rows[k] : k \in 1..Len(rows) }

\* The batches that hold a row.
BatchesWith(row) == { b \in drained : row \in RowsOf(b.rows) }

\* C19: every row handed to Insert is either still in the queue (once) or in
\* exactly one drained batch, never both; a batch drained by Insert is the
\* whole queue at the moment its length reached batchSize, so it holds
\* exactly batchSize rows in insertion order, and the queue always holds
\* fewer than batchSize rows.
C19_EachRowInOneBatch ==
    /\ \A row \in 1..inserted :
          Cardinality({ k \in 1..Len(queuedEvents) : queuedEvents[k] = row })
              + Cardinality(BatchesWith(row)) = 1
    /\ Len(queuedEvents) < batchSize
    /\ \A b \in drained :
          /\ b.by = "Insert" => Len(b.rows) = batchSize
          /\ \A k \in 1..(Len(b.rows) - 1) : b.rows[k + 1] = b.rows[k] + 1

\* C19 witness: with batchSize 2 and two goroutines inserting, two rows were
\* drained as one batch and a third row is waiting in the queue while the
\* batch is being submitted.
C19_Witness ==
    /\ batchSize = 2
    /\ inserted = 3
    /\ queuedEvents = <<3>>
    /\ [rows |-> <<1, 2>>, by |-> "Insert"] \in drained
    /\ \E p \in Inserters : biPc[p] = "put"

\* C20 (as stated): a Close that found rows in the queue has, when it
\* returns, drained them and submitted them to the warehouse, and no row
\* inserted before the Close is left in the queue.
C20_CloseSubmitsRemainder ==
    \A k \in 1..Len(closes) :
        (closes[k].returned /\ closes[k].queue # <<>>) =>
            /\ \E s \in submitted : s.rows = closes[k].queue
            /\ \A row \in RowsOf(queuedEvents) : row > closes[k].before

\* C20 (amended): a Close that found rows in the queue has, when it returns,
\* drained them into one batch that sendStream either submitted to the
\* warehouse or, finding pendingSends >= maxPendingSends, dropped; no row
\* inserted before the Close is left in the queue.
C20_CloseDrainsRemainder ==
    \A k \in 1..Len(closes) :
        /\ closes[k].queue # <<>> =>
              [rows |-> closes[k].queue, by |-> "Close"] \in drained
        /\ (closes[k].returned /\ closes[k].queue # <<>>) =>
              \/ \E s \in submitted : s.rows = closes[k].queue
              \/ closes[k].queue \in dropped
        /\ closes[k].returned =>
              \A row \in RowsOf(queuedEvents) : row > closes[k].before

\* C20 witness: with batchSize 2 a Close found one row in the queue, drained
\* and submitted it, and has returned.
C20_Witness ==
    /\ batchSize = 2
    /\ closes # <<>>
    /\ closes[1].returned
    /\ closes[1].queue = <<1>>
    /\ [rows |-> <<1>>, ok |-> TRUE] \in submitted
    /\ queuedEvents = <<>>

\* C34: a batch filled by an Insert is submitted in the background: the
\* goroutine that called Insert is never the one waiting for the warehouse
\* submission (inserter.Put) to finish.
C34_InsertNeverWaitsForPut ==
    \A p \in Inserters : biCall[p] = "Insert" => biPc[p] # "put"

(***************************************************************************)
(* RETINA  (src/retina, src/unnamed/part_003, src/unnamed/part_004)        *)
(***************************************************************************)
\* Bounds: length of the hash strings tried, concurrent OCR requests.
MaxHexLen == 4
MaxRequests == 3

Requests == 1..MaxRequests

\* The characters the hash strings are made of: digits, lower- and
\* upper-case hex letters, and one character that is no hex digit.
HashAlphabet == {"0", "7", "a", "F", "g"}

RECURSIVE HashStrings(_)
HashStrings(n) ==
    IF n = 0 THEN {""}
    ELSE HashStrings(n - 1) \cup { s \o c : s \in HashStrings(n - 1), c \in HashAlphabet }

\* position of character c in string s, 0 when absent
RECURSIVE IndexIn(_, _, _)
IndexIn(s, c, i) ==
    IF i > Len(s) THEN 0
    ELSE IF SubSeq(s, i, i) = c THEN i ELSE IndexIn(s, c, i + 1)

\* encoding/hex fromHexChar: the value of a hex digit of either case, -1 for
\* any other character
fromHexChar(c) ==
    IF IndexIn("0123456789abcdef", c, 1) > 0 THEN IndexIn("0123456789abcdef", c, 1) - 1
    ELSE IF IndexIn("ABCDEF", c, 1) > 0 THEN IndexIn("ABCDEF", c, 1) + 9
    ELSE -1

\* hex.DecodeString(input): the bytes, or an error for a character that is
\* no hex digit or an odd length
RECURSIVE DecodeBytes(_)
DecodeBytes(input) ==
    IF Len(input) = 0 THEN <<>>
    ELSE << 16 * fromHexChar(SubSeq(input, 1, 1)) + fromHexChar(SubSeq(input, 2, 2)) >>
            \o DecodeBytes(SubSeq(input, 3, Len(input)))

DecodeString(input) ==
    IF \/ Len(input) % 2 = 1
       \/ \E i \in 1..Len(input) : fromHexChar(SubSeq(input, i, i)) = -1
    THEN [err |-> TRUE, bytes |-> <<>>]
    ELSE [err |-> FALSE, bytes |-> DecodeBytes(input)]

\* 2^j
RECURSIVE Pow2(_)
Pow2(j) == IF j = 0 THEN 1 ELSE 2 * Pow2(j - 1)

\* What a conversion with the low bit first would write at offset k.
BitCharLowFirst(b, k) == IF (b \div Pow2(k)) % 2 = 1 THEN "1" ELSE "0"

\* strToBinary, inner loop: the character written at offset 7-j = k of the
\* byte's group, from (b>>j)&1
BitChar(b, k) == IF (b \div Pow2(7 - k)) % 2 = 1 THEN "1" ELSE "0"

RECURSIVE ByteBits(_, _)
ByteBits(b, k) == IF k > 7 THEN "" ELSE BitChar(b, k) \o ByteBits(b, k + 1)

RECURSIVE AllBits(_)
AllBits(hashb) ==
    IF Len(hashb) = 0 THEN "" ELSE ByteBits(Head(hashb), 0) \o AllBits(Tail(hashb))

\* strToBinary(input)
strToBinary(input) ==
    LET d == DecodeString(input)
    IN  IF d.err THEN [err |-> TRUE, out |-> ""]
        ELSE [err |-> FALSE, out |-> AllBits(d.bytes)]

\* A request to /pdq whose image GetImageHash has hashed.
PdqInit ==
    /\ hashRes \in HashStrings(MaxHexLen)
    /\ binary = Nil

OcrInit ==
    /\ ocrSize \in {1, 2}
    /\ ocrCur = 0
    /\ ocrWaiters = <<>>
    /\ ocrPc = [r \in Requests |-> "idle"]
    /\ ocrRet = [r \in Requests |-> "none"]

\* handlePdq / handlePdqBlob from the point where GetImageHash has returned
\* a hash: the conversion to the binary string.
HandlePdq ==
    /\ binary = Nil
    /\ binary' = <<strToBinary(hashRes)>>
    /\ UNCHANGED <<hashRes, ocrSize, ocrCur, ocrWaiters, ocrPc, ocrRet>>
    /\ UNCHANGED notRtVars

\* What a getImageTextStream that releases the slot only on success would do.
ReleasesOnSuccess(ok) == ok

\* defer r.ocrSemaphore.Release(1): runs on every return after the Acquire
Releases(ok) == TRUE

\* semaphore Acquire(ctx, 1) without blocking: the weight fits and nobody
\* waits; otherwise the request joins the waiters.
AcquireSlot(r) ==
    /\ ocrPc[r] = "idle"
    /\ IF ocrSize - ocrCur >= 1 /\ ocrWaiters = <<>>
       THEN /\ ocrCur' = ocrCur + 1
            /\ ocrPc' = [ocrPc EXCEPT ![r] = "exec"]
            /\ UNCHANGED ocrWaiters
       ELSE /\ ocrWaiters' = Append(ocrWaiters, r)
            /\ ocrPc' = [ocrPc EXCEPT ![r] = "waiting"]
            /\ UNCHANGED ocrCur
    /\ ocrRet' = [ocrRet EXCEPT ![r] = "none"]
    /\ UNCHANGED <<hashRes, binary, ocrSize>>
    /\ UNCHANGED notRtVars

\* The request's context is cancelled while it waits: Acquire takes it off
\* the waiters and returns ctx.Err(); getImageTextStream returns the error.
AcquireCancelled(r) ==
    /\ ocrPc[r] = "waiting"
    /\ ocrWaiters' = SelectSeq(ocrWaiters, LAMBDA q : q # r)
    /\ ocrPc' = [ocrPc EXCEPT ![r] = "idle"]
    /\ ocrRet' = [ocrRet EXCEPT ![r] = "error acquiring semaphore lock"]
    /\ UNCHANGED <<hashRes, binary, ocrSize, ocrCur>>
    /\ UNCHANGED notRtVars

\* semaphore notifyWaiters: the waiters at the front that fit are granted
\* their weight, in order.
RECURSIVE Granted(_, _)
Granted(waiters, free) ==
    IF waiters = <<>> \/ free < 1 THEN <<>>
    ELSE <<Head(waiters)>> \o Granted(Tail(waiters), free - 1)

\* cmd.Run() of tesseract returns (ok: without error; a cancelled context
\* kills the process and gives an error); the deferred Release(1) hands the
\* slot to the next waiter and getImageTextStream returns.
RunTesseract(r, ok) ==
    /\ ocrPc[r] = "exec"
    /\ LET cur == IF Releases(ok) THEN ocrCur - 1 ELSE ocrCur
           woken == Granted(ocrWaiters, ocrSize - cur)
       IN  /\ ocrCur' = cur + Len(woken)
           /\ ocrWaiters' = SubSeq(ocrWaiters, Len(woken) + 1, Len(ocrWaiters))
           /\ ocrPc' = [q \in Requests |->
                          IF q = r THEN "idle"
                          ELSE IF \E k \in 1..Len(woken) : woken[k] = q THEN "exec"
                          ELSE ocrPc[q]]
    /\ ocrRet' = [ocrRet EXCEPT ![r] = IF ok THEN "text" ELSE "error"]
    /\ UNCHANGED <<hashRes, binary, ocrSize>>
    /\ UNCHANGED notRtVars

PdqNext == HandlePdq

OcrNext ==
    \/ \E r \in Requests : AcquireSlot(r)
    \/ \E r \in Requests : AcquireCancelled(r)
    \/ \E r \in Requests, ok \in BOOLEAN : RunTesseract(r, ok)

(***************************************************************************)
(* Retina claims                                                           *)
(***************************************************************************)

\* encoding/hex EncodeToString of one byte: two lower-case hex digits
EncodeByte(b) ==
    SubSeq("0123456789abcdef", (b \div 16) + 1, (b \div 16) + 1)
        \o SubSeq("0123456789abcdef", (b % 16) + 1, (b % 16) + 1)

\* The value of 8 characters '0'/'1' read with the high bit first.
RECURSIVE BitsValue(_)
BitsValue(bits) ==
    IF Len(bits) = 0 THEN 0
    ELSE 2 * BitsValue(SubSeq(bits, 1, Len(bits) - 1))
            + (IF SubSeq(bits, Len(bits), Len(bits)) = "1" THEN 1 ELSE 0)

\* The conversion back: every group of 8 characters becomes one hex byte.
RECURSIVE binaryToHex(_)
binaryToHex(bin) ==
    IF Len(bin) = 0 THEN ""
    ELSE EncodeByte(BitsValue(SubSeq(bin, 1, 8))) \o binaryToHex(SubSeq(bin, 9, Len(bin)))

\* strings.ToLower on a hash string
RECURSIVE ToLower(_)
ToLower(s) ==
    IF Len(s) = 0 THEN ""
    ELSE LET c == SubSeq(s, 1, 1)
             k == IndexIn("ABCDEF", c, 1)
         IN  (IF k > 0 THEN SubSeq("abcdef", k, k) ELSE c) \o ToLower(SubSeq(s, 2, Len(s)))

\* The hash of the request is valid hex and has been converted.
Converted == binary # Nil /\ ~binary[1].err

\* The output has 8 characters per byte, each '0' or '1', and the group of
\* byte k spells its value with the high bit first.
HighBitFirst ==
    LET out == binary[1].out
    IN  /\ Len(out) = 8 * (Len(hashRes) \div 2)
        /\ \A i \in 1..Len(out) : SubSeq(out, i, i) \in {"0", "1"}
        /\ \A k \in 1..(Len(hashRes) \div 2) :
              BitsValue(SubSeq(out, 8 * k - 7, 8 * k))
                  = 16 * fromHexChar(SubSeq(hashRes, 2 * k - 1, 2 * k - 1))
                       + fromHexChar(SubSeq(hashRes, 2 * k, 2 * k))

Executing == { r \in Requests : ocrPc[r] = "exec" }

\* C26: at most MaxConcurrentOCRExecs tesseract executions run at the same
\* time; the weight the semaphore holds is exactly the number of running
\* executions, so every execution that ended, with or without error, gave
\* its slot back; a request waits only while all slots are taken, and the
\* waiting requests are exactly those in the semaphore's queue.
C26_OcrExecsBounded ==
    /\ Cardinality(Executing) <= ocrSize
    /\ ocrCur = Cardinality(Executing)
    /\ ocrWaiters # <<>> => ocrCur = ocrSize
    /\ \A r \in Requests :
          ocrPc[r] = "waiting" <=> \E k \in 1..Len(ocrWaiters) : ocrWaiters[k] = r
    /\ \A j, k \in 1..Len(ocrWaiters) : ocrWaiters[j] = ocrWaiters[k] => j = k

\* C26 witness: with one slot, an execution ended with an error, the slot
\* went to a request that had been waiting, and a third request waits.
C26_Witness ==
    /\ ocrSize = 1
    /\ ocrRet[1] = "error" /\ ocrPc[1] = "idle"
    /\ ocrPc[2] = "exec"
    /\ ocrWaiters = <<3>>

(***************************************************************************)
(* LABEL AND REPORT VOCABULARIES  (src/effector/ozone.go)                  *)
(***************************************************************************)
\* enum AtprotoLabel
AtprotoLabel == {"ATPROTO_LABEL_NONE", "ATPROTO_LABEL_SPAM", "ATPROTO_LABEL_RUDE",
                 "ATPROTO_LABEL_PORN", "ATPROTO_LABEL_SEXUAL", "ATPROTO_LABEL_WARN",
                 "ATPROTO_LABEL_HIDE", "ATPROTO_LABEL_NEEDS_REVIEW",
                 "ATPROTO_LABEL_MISLEADING"}

\* enum AtprotoReportKind
AtprotoReportKind == {"ATPROTO_REPORT_KIND_NONE", "ATPROTO_REPORT_KIND_SPAM",
                      "ATPROTO_REPORT_KIND_VIOLATION", "ATPROTO_REPORT_KIND_MISLEADING",
                      "ATPROTO_REPORT_KIND_SEXUAL", "ATPROTO_REPORT_KIND_RUDE",
                      "ATPROTO_REPORT_KIND_OTHER"}

\* The outcome of a conversion: a string, or a panic.
Returns(str) == [panic |-> FALSE, str |-> str]
Panics == [panic |-> TRUE, str |-> ""]

\* AtprotoReportKindToString
AtprotoReportKindToString(kind) ==
    CASE kind = "ATPROTO_REPORT_KIND_SPAM" -> Returns("com.atproto.moderation.defs#reasonSpam")
      [] kind = "ATPROTO_REPORT_KIND_VIOLATION" ->
            Returns("com.atproto.moderation.defs#reasonViolation")
      [] kind = "ATPROTO_REPORT_KIND_MISLEADING" ->
            Returns("com.atproto.moderation.defs#reasonMisleading")
      [] kind = "ATPROTO_REPORT_KIND_SEXUAL" ->
            Returns("com.atproto.moderation.defs#reasonSexual")
      [] kind = "ATPROTO_REPORT_KIND_RUDE" -> Returns("com.atproto.moderation.defs#reasonRude")
      [] kind = "ATPROTO_REPORT_KIND_OTHER" -> Returns("com.atproto.moderation.defs#reasonOther")
      [] OTHER -> Panics

\* AtprotoLabelToString
AtprotoLabelToString(l) ==
    CASE l = "ATPROTO_LABEL_HIDE" -> Returns("!hide")
      [] l = "ATPROTO_LABEL_NEEDS_REVIEW" -> Returns("needs-review")
      [] l = "ATPROTO_LABEL_PORN" -> Returns("porn")
      [] l = "ATPROTO_LABEL_RUDE" -> Returns("rude")
      [] l = "ATPROTO_LABEL_SEXUAL" -> Returns("sexual")
      [] l = "ATPROTO_LABEL_SPAM" -> Returns("spam")
      [] l = "ATPROTO_LABEL_WARN" -> Returns("!warn")
      [] l = "ATPROTO_LABEL_MISLEADING" -> Returns("misleading")
      [] OTHER -> Panics

\* A verdict's label effect and report effect, as decoded from the input
\* topic: any member of the two enums.
VoInit ==
    /\ effLabel \in AtprotoLabel
    /\ effReportKind \in AtprotoReportKind
    /\ labelStr = Nil
    /\ reportTypeStr = Nil

\* LabelActor / LabelRecord in production: labelStr := AtprotoLabelToString(effLabel)
ConvertLabel ==
    /\ labelStr = Nil
    /\ labelStr' = <<AtprotoLabelToString(effLabel)>>
    /\ UNCHANGED <<effLabel, effReportKind, reportTypeStr>>
    /\ UNCHANGED notVoVars

\* ReportActor / ReportRecord in production:
\* reportTypeStr := AtprotoReportKindToString(effReportKind)
ConvertReportKind ==
    /\ reportTypeStr = Nil
    /\ reportTypeStr' = <<AtprotoReportKindToString(effReportKind)>>
    /\ UNCHANGED <<effLabel, effReportKind, labelStr>>
    /\ UNCHANGED notVoVars

VoNext == ConvertLabel \/ ConvertReportKind

(***************************************************************************)
(* Vocabulary claims                                                       *)
(***************************************************************************)
LabelVocabulary == {"!hide", "!warn", "spam", "rude", "porn", "sexual", "misleading",
                    "needs-review"}

\* C23 (as stated): for every member of the label enum the label mapping
\* returns one value of the label vocabulary, and for every member of the
\* report-kind enum the report-kind mapping returns a reason token: no
\* member of either enum makes a mapping panic.
C23_MappingsTotalOnEnums ==
    /\ labelStr # Nil => ~labelStr[1].panic /\ labelStr[1].str \in LabelVocabulary
    /\ reportTypeStr # Nil =>
          /\ ~reportTypeStr[1].panic
          /\ HasPrefix(reportTypeStr[1].str, "com.atproto.moderation.defs#reason")

(***************************************************************************)
(* LOG MANAGER  (src/retina/retina.go, OspreyLogManager)                   *)
(***************************************************************************)
\* Bound: sinks registered with the manager.
MaxLoggers == 3

\* The names of the sinks offered to AddLogger.
LoggerNames == {"bigquery", "kafka", "stdout"}

\* includesLogger: a sink of that name is registered
includesLogger(ls, name) == \E k \in 1..Len(ls) : ls[k] = name

\* What a loop that stops at the first failing sink would do.
ContinuesUntilError(err) == err = Nil

\* for _, w := range lm.loggers: the loop has no break and no return
Continues(err) == TRUE

\* errors.Join(err, werr): the non-nil errors, in order (the joined error
\* unwraps to them and prints them one per line)
ErrorsJoin(err, werr) == err \o werr

\* The error sink name returns from LogEvent / LogEffect when it fails.
SinkError(name, kind) == <<kind \o " failed in " \o name>>

LmInit ==
    /\ loggers = <<>>
    /\ addErr = Nil
    /\ lmPc = "idle"
    /\ lmKind = ""
    /\ lmIdx = 0
    /\ lmErr = Nil
    /\ sinkCalls = <<>>
    /\ lmRet = Nil

\* AddLogger: appends the sink unless one of the same name is registered.
\* The sinks are registered while the effector is constructed, before the
\* first LogEvent / LogEffect.
AddLogger(name) ==
    /\ lmPc = "idle"
    /\ lmKind = ""
    /\ Len(loggers) < MaxLoggers
    /\ IF includesLogger(loggers, name)
       THEN /\ addErr' = <<"a logger with the same name " \o name \o " already exists">>
            /\ UNCHANGED loggers
       ELSE /\ loggers' = Append(loggers, name)
            /\ addErr' = Nil
    /\ UNCHANGED <<lmPc, lmKind, lmIdx, lmErr, sinkCalls, lmRet>>
    /\ UNCHANGED notLmVars

\* LogEvent / LogEffect is called: var err error, and the loop starts.
LogCall(kind) ==
    /\ lmPc = "idle"
    /\ lmPc' = "loop"
    /\ lmKind' = kind
    /\ lmIdx' = 1
    /\ lmErr' = Nil
    /\ sinkCalls' = <<>>
    /\ lmRet' = Nil
    /\ UNCHANGED <<loggers, addErr>>
    /\ UNCHANGED notLmVars

\* One iteration: w.LogEvent / w.LogEffect of the sink at lmIdx returns
\* (ok: nil), and a non-nil error is joined to err.
SinkCall(ok) ==
    /\ lmPc = "loop"
    /\ lmIdx <= Len(loggers)
    /\ LET w == loggers[lmIdx]
           werr == IF ok THEN Nil ELSE SinkError(w, lmKind)
           err == IF werr # Nil THEN ErrorsJoin(lmErr, werr) ELSE lmErr
       IN  /\ sinkCalls' = Append(sinkCalls, [sink |-> w, kind |-> lmKind, ok |-> ok])
           /\ lmErr' = err
           /\ lmIdx' = IF Continues(err) THEN lmIdx + 1 ELSE Len(loggers) + 1
    /\ UNCHANGED <<loggers, addErr, lmPc, lmKind, lmRet>>
    /\ UNCHANGED notLmVars

\* The loop is over: return err.
LogReturn ==
    /\ lmPc = "loop"
    /\ lmIdx > Len(loggers)
    /\ lmPc' = "idle"
    /\ lmRet' = <<lmErr>>
    /\ UNCHANGED <<loggers, addErr, lmKind, lmIdx, lmErr, sinkCalls>>
    /\ UNCHANGED notLmVars

LmNext ==
    \/ \E name \in LoggerNames : AddLogger(name)
    \/ \E kind \in {"LogEvent", "LogEffect"} : LogCall(kind)
    \/ \E ok \in BOOLEAN : SinkCall(ok)
    \/ LogReturn

(***************************************************************************)
(* Log manager claims                                                      *)
(***************************************************************************)
\* The errors of the failing sinks among the first n invocations, in order.
RECURSIVE FailedErrors(_)
FailedErrors(calls) ==
    IF calls = <<>> THEN <<>>
    ELSE FailedErrors(SubSeq(calls, 1, Len(calls) - 1))
            \o (IF calls[Len(calls)].ok THEN <<>>
                ELSE SinkError(calls[Len(calls)].sink, calls[Len(calls)].kind))

\* C25: a LogEvent / LogEffect call invokes the registered sinks one by one
\* in registration order with its own method, whatever earlier sinks
\* returned; when it has returned every sink was invoked exactly once, and
\* the returned error is nil iff every sink succeeded and otherwise joins
\* the errors of all failing sinks.
C25_EverySinkInvokedErrorsJoined ==
    /\ Len(sinkCalls) <= Len(loggers)
    /\ \A k \in 1..Len(sinkCalls) :
          sinkCalls[k].sink = loggers[k] /\ sinkCalls[k].kind = lmKind
    /\ lmPc = "loop" => Len(sinkCalls) = lmIdx - 1
    /\ lmRet # Nil =>
          /\ Len(sinkCalls) = Len(loggers)
          /\ lmRet[1] = Nil <=> \A k \in 1..Len(sinkCalls) : sinkCalls[k].ok
          /\ lmRet[1] = FailedErrors(sinkCalls)

\* C25 witness: with three sinks registered a LogEffect call returned after
\* the first and the third sink failed and the second succeeded.
C25_Witness ==
    /\ Len(loggers) = 3
    /\ lmKind = "LogEffect"
    /\ lmRet # Nil
    /\ Len(sinkCalls) = 3
    /\ ~sinkCalls[1].ok /\ sinkCalls[2].ok /\ ~sinkCalls[3].ok
    /\ Len(lmRet[1]) = 2

(***************************************************************************)
(* RETINA: Run and shutdown  (src/retina/retina.go, src/cmd/retina)        *)
(***************************************************************************)
\* Bound: API requests served at the same time.
MaxConns == 2

\* The process runs: main has not returned and no goroutine has panicked.
ProcessUp == rrPc \notin {"exited", "crashed"}

\* r.httpd.Shutdown has been called.
ShutdownCalled == echoPc \in {"shutdown", "finished"}

RrInit ==
    /\ rrPc = "init"
    /\ echoPc = "none"
    /\ httpdPc = "none"
    /\ metricsPc = "none"
    /\ shutdownEcho = FALSE
    /\ rrWg = 0
    /\ rrConns = 0

\* Run up to <-signals: starts the metrics goroutine, adds the routes,
\* declares the wait group (wg := sync.WaitGroup{}, no wg.Add), makes the
\* shutdownEcho channel, starts the shutdown goroutine and registers for
\* SIGINT / SIGTERM.
RunStart ==
    /\ rrPc = "init"
    /\ rrPc' = "signals"
    /\ metricsPc' = "starting"
    /\ echoPc' = "spawned"
    /\ UNCHANGED <<httpdPc, shutdownEcho, rrWg, rrConns>>
    /\ UNCHANGED notRrVars

\* r.metricsHttpd.ListenAndServe() binds, or fails and is logged.
MetricsListen(ok) ==
    /\ ProcessUp
    /\ metricsPc = "starting"
    /\ metricsPc' = IF ok THEN "serving" ELSE "failed"
    /\ UNCHANGED <<rrPc, echoPc, httpdPc, shutdownEcho, rrWg, rrConns>>
    /\ UNCHANGED notRrVars

\* The shutdown goroutine runs: it starts the goroutine of
\* r.httpd.ListenAndServe() and blocks on <-shutdownEcho.
EchoStart ==
    /\ ProcessUp
    /\ echoPc = "spawned"
    /\ echoPc' = "waiting"
    /\ httpdPc' = "starting"
    /\ UNCHANGED <<rrPc, metricsPc, shutdownEcho, rrWg, rrConns>>
    /\ UNCHANGED notRrVars

\* r.httpd.ListenAndServe() binds, or fails and is logged; on a server
\* already shut down it returns http.ErrServerClosed.
HttpdListen(ok) ==
    /\ ProcessUp
    /\ httpdPc = "starting"
    /\ httpdPc' = IF ShutdownCalled THEN "closed"
                  ELSE IF ok THEN "serving" ELSE "failed"
    /\ UNCHANGED <<rrPc, echoPc, metricsPc, shutdownEcho, rrWg, rrConns>>
    /\ UNCHANGED notRrVars

\* The API server accepts a request.
RequestArrives ==
    /\ ProcessUp
    /\ httpdPc = "serving"
    /\ rrConns < MaxConns
    /\ rrConns' = rrConns + 1
    /\ UNCHANGED <<rrPc, echoPc, httpdPc, metricsPc, shutdownEcho, rrWg>>
    /\ UNCHANGED notRrVars

\* A request being served is answered.
RequestDone ==
    /\ ProcessUp
    /\ rrConns > 0
    /\ rrConns' = rrConns - 1
    /\ UNCHANGED <<rrPc, echoPc, httpdPc, metricsPc, shutdownEcho, rrWg>>
    /\ UNCHANGED notRrVars

\* <-signals: SIGINT or SIGTERM is delivered; Run logs "shutting down on
\* signal".
ReceiveSignal ==
    /\ rrPc = "signals"
    /\ rrPc' = "close"
    /\ UNCHANGED <<echoPc, httpdPc, metricsPc, shutdownEcho, rrWg, rrConns>>
    /\ UNCHANGED notRrVars

\* close(shutdownEcho)
CloseShutdownEcho ==
    /\ rrPc = "close"
    /\ rrPc' = "wait"
    /\ shutdownEcho' = TRUE
    /\ UNCHANGED <<echoPc, httpdPc, metricsPc, rrWg, rrConns>>
    /\ UNCHANGED notRrVars

\* wg.Wait() returns, with the counter at zero; Run logs and returns nil.
WgWait ==
    /\ rrPc = "wait"
    /\ WaitDone(rrWg)
    /\ rrPc' = "returned"
    /\ UNCHANGED <<echoPc, httpdPc, metricsPc, shutdownEcho, rrWg, rrConns>>
    /\ UNCHANGED notRrVars

\* The cli action and main return after Run: the process ends, with
\* whatever its goroutines were doing.
MainReturns ==
    /\ rrPc = "returned"
    /\ rrPc' = "exited"
    /\ UNCHANGED <<echoPc, httpdPc, metricsPc, shutdownEcho, rrWg, rrConns>>
    /\ UNCHANGED notRrVars

\* The shutdown goroutine receives from the closed channel and calls
\* r.httpd.Shutdown with a 10 s timeout: the listener is closed, so a
\* serving ListenAndServe returns http.ErrServerClosed.
EchoWakes ==
    /\ ProcessUp
    /\ echoPc = "waiting"
    /\ shutdownEcho
    /\ echoPc' = "shutdown"
    /\ httpdPc' = IF httpdPc = "serving" THEN "closed" ELSE httpdPc
    /\ UNCHANGED <<rrPc, metricsPc, shutdownEcho, rrWg, rrConns>>
    /\ UNCHANGED notRrVars

\* wg.Done(): the counter after it, and whether it panics ("sync: negative
\* WaitGroup counter").
DoneCounter(counter) == counter - 1
DonePanics(counter) == DoneCounter(counter) < 0

\* r.httpd.Shutdown returns: nil once no request is being served, the
\* context's error when the 10 s run out first.  The goroutine returns and
\* its deferred cancel() and wg.Done() run; a panic of wg.Done() ends the
\* process.
EchoShutdownReturns(ok) ==
    /\ ProcessUp
    /\ echoPc = "shutdown"
    /\ IF ok THEN rrConns = 0 ELSE rrConns > 0
    /\ rrWg' = DoneCounter(rrWg)
    /\ IF DonePanics(rrWg)
       THEN /\ echoPc' = "panicked"
            /\ rrPc' = "crashed"
       ELSE /\ echoPc' = "finished"
            /\ UNCHANGED rrPc
    /\ UNCHANGED <<httpdPc, metricsPc, shutdownEcho, rrConns>>
    /\ UNCHANGED notRrVars

RrNext ==
    \/ RunStart
    \/ \E ok \in BOOLEAN : MetricsListen(ok)
    \/ EchoStart
    \/ \E ok \in BOOLEAN : HttpdListen(ok)
    \/ RequestArrives
    \/ RequestDone
    \/ ReceiveSignal
    \/ CloseShutdownEcho
    \/ WgWait
    \/ MainReturns
    \/ EchoWakes
    \/ \E ok \in BOOLEAN : EchoShutdownReturns(ok)

(***************************************************************************)
(* Retina shutdown claims                                                  *)
(***************************************************************************)
\* C39 (as stated): once Run has returned after the signal, the API
\* server's shutdown goroutine has finished, and the wait group's counter
\* is never negative.
C39_RunReturnsAfterShutdownGoroutine ==
    /\ rrPc \in {"returned", "exited"} => echoPc = "finished"
    /\ rrWg >= 0

(***************************************************************************)
(* IMAGE CDN CLIENT  (src/unnamed/part_005)                                *)
(***************************************************************************)
\* Bounds: goroutines calling GetImageBytes at the same time; calls made in
\* all; the cache sizes a client is constructed with (0: the enricher's).
MaxCdCallers == 2
MaxCdCalls == 3
MaxCacheSize == 1

CdCallers == 1..MaxCdCallers
CdCids == {"cidA", "cidB"}

\* cacheKey := fmt.Sprintf("%s/%s", did, cid)
CacheKey(did, cid) == did \o "/" \o cid

\* NewClient: c.cache stays the nil *lru.LRU unless args.CacheSize > 0.
NewClientCache(cacheSize) == IF cacheSize > 0 THEN << {} >> ELSE Nil

\* A method of *lru.LRU called on the nil pointer: Get and Add lock the
\* receiver's mutex first, a nil pointer dereference.
NilReceiver(cache) == cache = Nil

\* c.cache.Get(cacheKey) finds the key.
CacheHit(cache, key) == ~NilReceiver(cache) /\ key \in cache[1]

\* The contents c.cache.Add(key, ...) can leave in a cache of the given
\* size: the key is held, and keys held before are evicted while the size
\* is exceeded.
CacheAfterAdd(cache, key, size) ==
    { << kept \cup {key} >> :
        kept \in { k \in SUBSET (cache[1] \ {key}) :
                     /\ Cardinality(k) + 1 <= size
                     /\ \/ k = cache[1] \ {key}
                        \/ Cardinality(k) + 1 = size } }

\* A goroutine of the process has panicked: the process is gone.
CdPanicked == \E c \in CdCallers : cdPc[c] = "panicked"

CdInit ==
    /\ cdCacheSize \in 0..MaxCacheSize
    /\ cdCache = NewClientCache(cdCacheSize)
    /\ cdPc = [c \in CdCallers |-> "idle"]
    /\ cdCid = [c \in CdCallers |-> ""]
    /\ cdRet = [c \in CdCallers |-> "none"]
    /\ cdFetches = <<>>
    /\ cdCalls = 0

\* GetImageBytes up to the limiter: the cache lookup, with the return of the
\* cached bytes on a hit.
GetImageBytes(c, cid) ==
    /\ ~CdPanicked
    /\ cdPc[c] = "idle"
    /\ cdCalls < MaxCdCalls
    /\ cdCalls' = cdCalls + 1
    /\ cdCid' = [cdCid EXCEPT ![c] = cid]
    /\ IF NilReceiver(cdCache)
       THEN /\ cdPc' = [cdPc EXCEPT ![c] = "panicked"]
            /\ cdRet' = [cdRet EXCEPT ![c] = "none"]
       ELSE IF CacheHit(cdCache, CacheKey(ActorDid, cid))
       THEN /\ cdRet' = [cdRet EXCEPT ![c] = "bytes"]
            /\ UNCHANGED cdPc
       ELSE /\ cdPc' = [cdPc EXCEPT ![c] = "limiter"]
            /\ cdRet' = [cdRet EXCEPT ![c] = "none"]
    /\ UNCHANGED <<cdCacheSize, cdCache, cdFetches>>
    /\ UNCHANGED notCdVars

\* c.limiter.Wait(ctx) returns: nil, or an error when the context is done
\* first.
LimiterWait(c, ok) ==
    /\ ~CdPanicked
    /\ cdPc[c] = "limiter"
    /\ IF ok
       THEN /\ cdPc' = [cdPc EXCEPT ![c] = "request"]
            /\ UNCHANGED cdRet
       ELSE /\ cdPc' = [cdPc EXCEPT ![c] = "idle"]
            /\ cdRet' = [cdRet EXCEPT ![c] = "error"]
    /\ UNCHANGED <<cdCacheSize, cdCache, cdCid, cdFetches, cdCalls>>
    /\ UNCHANGED notCdVars

\* The outcomes of the request to the CDN: a 200 with its body read, a
\* transport error, another status, a failed body read.
CdnOutcomes == {"ok", "transport", "status", "body"}

\* c.client.Do returns and the body is read.  A 200 with its body is added
\* to the cache and returned; every other outcome returns an error.
CdnResponds(c, outcome) ==
    /\ ~CdPanicked
    /\ cdPc[c] = "request"
    /\ cdFetches' = Append(cdFetches, [key |-> CacheKey(ActorDid, cdCid[c]),
                                       outcome |-> outcome])
    /\ IF outcome # "ok"
       THEN /\ cdPc' = [cdPc EXCEPT ![c] = "idle"]
            /\ cdRet' = [cdRet EXCEPT ![c] = "error"]
            /\ UNCHANGED cdCache
       ELSE IF NilReceiver(cdCache)
       THEN /\ cdPc' = [cdPc EXCEPT ![c] = "panicked"]
            /\ UNCHANGED <<cdCache, cdRet>>
       ELSE /\ cdCache' \in CacheAfterAdd(cdCache, CacheKey(ActorDid, cdCid[c]), cdCacheSize)
            /\ cdPc' = [cdPc EXCEPT ![c] = "idle"]
            /\ cdRet' = [cdRet EXCEPT ![c] = "bytes"]
    /\ UNCHANGED <<cdCacheSize, cdCid, cdCalls>>
    /\ UNCHANGED notCdVars

CdNext ==
    \/ \E c \in CdCallers, cid \in CdCids : GetImageBytes(c, cid)
    \/ \E c \in CdCallers, ok \in BOOLEAN : LimiterWait(c, ok)
    \/ \E c \in CdCallers, outcome \in CdnOutcomes : CdnResponds(c, outcome)

(***************************************************************************)
(* Image CDN client claims                                                 *)
(***************************************************************************)
\* C40 (as stated): on a client constructed with CacheSize 0 no call of
\* GetImageBytes dereferences the missing cache, and every call that has
\* ended returned the bytes or an error value.
C40_WorksWithCacheDisabled ==
    cdCacheSize = 0 =>
        \A c \in CdCallers :
            /\ cdPc[c] # "panicked"
            /\ (cdCid[c] # "" /\ cdPc[c] = "idle") => cdRet[c] \in {"bytes", "error"}

(***************************************************************************)
(* Specifications                                                          *)
(***************************************************************************)
\* The effector at rest.
EffIdle == EffInit /\ topic = <<1, 1>> /\ isProduction = FALSE

\* The converter at rest, on a fresh consumer group.
CvIdle == CvInit /\ cursorLog = <<>>

\* The enricher at rest.
EnIdle == EnInit /\ ~enEvent.hasCommit /\ enConfig.ozone

\* The moderation client at rest.
OcIdle == OcInit /\ ~ocProduction /\ ocExpiring = {}

\* The batched inserter at rest.
BiIdle == BiInit /\ batchSize = 1 /\ maxPendingSends = 1

\* Retina at rest.
RtIdle == PdqInit /\ OcrInit /\ hashRes = "" /\ ocrSize = 1

\* No label or report being converted.
VoIdle == VoInit /\ effLabel = "ATPROTO_LABEL_SPAM" /\ effReportKind = "ATPROTO_REPORT_KIND_SPAM"

\* The log manager before any sink is registered.
LmIdle == LmInit

\* The effector running, no signal received.
SdIdle == SdInit

\* Retina before Run.
RrIdle == RrInit

\* The image CDN client as the enricher constructs it, not in use.
CdIdle == CdInit /\ cdCacheSize = 0

InitEffector == EffInit /\ CvIdle /\ EnIdle /\ OcIdle /\ BiIdle /\ RtIdle /\ VoIdle /\ LmIdle /\ SdIdle
                /\ RrIdle /\ CdIdle
SpecEffector == InitEffector /\ [][EffNext]_vars

InitConverter == CvInit /\ EffIdle /\ EnIdle /\ OcIdle /\ BiIdle /\ RtIdle /\ VoIdle /\ LmIdle /\ SdIdle /\ RrIdle /\ CdIdle
SpecConverter == InitConverter /\ [][CvNext]_vars

InitEnricher == EnInit /\ EffIdle /\ CvIdle /\ OcIdle /\ BiIdle /\ RtIdle /\ VoIdle /\ LmIdle /\ SdIdle /\ RrIdle /\ CdIdle
SpecEnricher == InitEnricher /\ [][EnNext]_vars

InitOzoneClient == OcInit /\ EffIdle /\ CvIdle /\ EnIdle /\ BiIdle /\ RtIdle /\ VoIdle /\ LmIdle /\ SdIdle /\ RrIdle /\ CdIdle
SpecOzoneClient == InitOzoneClient /\ [][OcNext]_vars

InitInserter == BiInit /\ EffIdle /\ CvIdle /\ EnIdle /\ OcIdle /\ RtIdle /\ VoIdle /\ LmIdle /\ SdIdle /\ RrIdle /\ CdIdle
SpecInserter == InitInserter /\ [][BiNext]_vars

InitPdq == PdqInit /\ OcrInit /\ ocrSize = 1
           /\ EffIdle /\ CvIdle /\ EnIdle /\ OcIdle /\ BiIdle /\ VoIdle /\ LmIdle /\ SdIdle /\ RrIdle /\ CdIdle
SpecPdq == InitPdq /\ [][PdqNext]_vars

InitOcr == OcrInit /\ PdqInit /\ hashRes = ""
           /\ EffIdle /\ CvIdle /\ EnIdle /\ OcIdle /\ BiIdle /\ VoIdle /\ LmIdle /\ SdIdle /\ RrIdle /\ CdIdle
SpecOcr == InitOcr /\ [][OcrNext]_vars

InitVocabulary == VoInit /\ EffIdle /\ CvIdle /\ EnIdle /\ OcIdle /\ BiIdle /\ RtIdle /\ LmIdle /\ SdIdle /\ RrIdle /\ CdIdle
SpecVocabulary == InitVocabulary /\ [][VoNext]_vars

InitLogManager == LmInit /\ EffIdle /\ CvIdle /\ EnIdle /\ OcIdle /\ BiIdle /\ RtIdle /\ VoIdle /\ SdIdle /\ RrIdle /\ CdIdle
SpecLogManager == InitLogManager /\ [][LmNext]_vars

InitEffectorShutdown == InitEffector
SpecEffectorShutdown == InitEffectorShutdown /\ [][SdNext]_vars

InitRetinaRun == RrInit /\ EffIdle /\ CvIdle /\ EnIdle /\ OcIdle /\ BiIdle /\ RtIdle /\ VoIdle /\ LmIdle
                 /\ SdIdle /\ CdIdle
SpecRetinaRun == InitRetinaRun /\ [][RrNext]_vars

InitCdn == CdInit /\ EffIdle /\ CvIdle /\ EnIdle /\ OcIdle /\ BiIdle /\ RtIdle /\ VoIdle /\ LmIdle
           /\ SdIdle /\ RrIdle
SpecCdn == InitCdn /\ [][CdNext]_vars
====
